---- MODULE Spec2Model ----
(***************************************************************************)
(* Chunked text-to-speech pipeline of AudioTool.                           *)
(*                                                                         *)
(*   SpecSeg    split_text_into_chunks, one loop iteration per step        *)
(*   SpecBatch  TTSConverter.generate_all_chunks (semaphore + gather)      *)
(*   SpecAPI    TTSConverterAPI.convert driven by run_conversion           *)
(*   SpecGate   both batch runners, for properties of the admission gate   *)
(*   SpecBatches  generate_all_chunks, concurrent and sequential           *)
(*                                                                         *)
(* Every specification owns a group of variables; the variables of the     *)
(* other groups stay at their idle values.                                 *)
(***************************************************************************)
EXTENDS Integers, Sequences, FiniteSets, TLC

VARIABLES
    \* ---- split_text_into_chunks
    text,           \* the input text, a sequence of characters
    chunk_min,      \* chunk_min / self.chunk_size_min
    chunk_max,      \* chunk_max / self.chunk_size_max
    current_pos,    \* 0-based scan position
    chunks,         \* the chunks emitted so far
    seg_pc,         \* "idle" | "loop" | "done"
    \* ---- TTSConverter.generate_all_chunks (tts_converter_py313.py)
    b_chunks,               \* the chunks handed to generate_all_chunks
    max_concurrent_chunks,  \* self.max_concurrent_chunks
    semaphore,              \* value of the asyncio.Semaphore
    tasks,                  \* the chunk indices a task was created for, in creation order
    task_pc,                \* per index: "none" | "waiting" | "running" | "done"
    task_result,            \* per index: the triple the task returned, or None
    finished,               \* the indices in completion order
    chunk_files,            \* the success list
    errors,                 \* the failure list, (index, error) pairs
    b_pc,                   \* "idle" | "start" | "gather" | "returned" | "raised"
    \* ---- TTSConverter.generate_all_chunks, sequential (tts_converter.py)
    q_chunks,       \* the chunks handed to generate_all_chunks
    q_i,            \* the 1-based index the for loop is at
    q_files,        \* chunk_files
    q_failed,       \* the indices whose generate_chunk_audio raised, in order
    q_pc,           \* "idle" | "loop" | "returned" | "raised"
    \* ---- TTSConverterAPI.convert under run_conversion (tts_api.py)
    a_chunks,       \* chunks produced by the split inside convert
    merge_chunks,   \* request.merge_chunks
    keep_chunks,    \* request.keep_chunks
    a_semaphore,    \* value of the asyncio.Semaphore(3)
    a_task,         \* per index: "waiting" | "running" | "ok" | "failed" | "cancelled"
    a_files,        \* files present in the task's output folder
    a_result,       \* what convert returned, or None
    a_task_rec,     \* conversion_tasks[task_id]: status, progress, message, result, error
    conv_pc,        \* "idle" | "start" | "gather" | "merge" | "returned" | "raised" |
                    \* "unhandled" (run_conversion left by an exception) | "cancelled"
    \* ---- split_text_into_chunks called again on the same converter
    runs,           \* the number of calls that have returned and been followed by another
    first_chunks,   \* what the first call returned, or None
    \* ---- CustomSRTMaker (custom_srt_generator.py)
    srt_maker,      \* the maker: cues and cue_index
    fed,            \* the events passed to feed_sentence, in order
    srt_content,    \* what the latest get_srt returned
    srt_pc,         \* "idle" | "feeding" | "serialized"
    \* ---- generate_chunk_audio_robust, one call per chunk (tts_converter_py313.py)
    generate_srt,   \* the generate_srt argument of the calls
    s_pc,           \* per chunk: "start" | "streaming" | "returned" | "raised"
    s_events,       \* per chunk: the events its stream has delivered
    s_maker,        \* per chunk: its srt_maker
    s_ret,          \* per chunk: what the call returned or raised
    fs_exists,      \* the names of the files in the output folder
    fs_content,     \* per file name: the content of the file
    \* ---- try_merge_with_ffmpeg (tts_converter_py313.py), merge_with_ffmpeg (tts_api.py)
    m_chunk_files,  \* the chunk_files argument: file names, in order
    m_keep,         \* the keep_chunks argument
    m_fs,           \* the names of the files in the chunk folder
    m_list,         \* the lines written to chunk_list.txt, None before it is written
    m_probe,        \* outcome of `ffmpeg -version`: "none" | "ok" | "not found" | "nonzero"
    m_exit,         \* outcome of the concatenation: "none" | "zero" | "nonzero" | "raised"
    m_calls,        \* the external commands run so far, in order
    m_pos,          \* 1-based position of the deletion loop
    m_attempts,     \* the chunk files whose unlink was called, in order
    m_failed,       \* the chunk files whose unlink raised
    m_ret,          \* what the call returned
    m_pc,           \* "idle" | "start" | "probed" | "listed" | "deleting" | "returned"
    \* ---- download_file (tts_api.py)
    d_task_id,      \* the task_id of the latest GET /download/{task_id}/{filename}
    d_filename,     \* its filename
    d_response,     \* the response to it
    \* ---- TTSConverter.convert_story (tts_converter_py313.py)
    cs_moved,       \* moved_chunk_files: the destination paths, in order
    cs_pc,          \* "idle" | "returned" | "raised"
    \* ---- TTSConverterGUI (tts_gui_py313.py, tts_gui_with_srt.py)
    is_converting,  \* self.is_converting
    threads,        \* the threads started, in order: "running" | "succeeded" | "failed"
    after_calls,    \* the root.after(0, conversion_complete, success, ...) calls not yet run
    shown,          \* the message boxes shown, in order
    clicks          \* how many times start_conversion was called

segVars == <<text, chunk_min, chunk_max, current_pos, chunks, seg_pc>>

batchVars == <<b_chunks, max_concurrent_chunks, semaphore, tasks, task_pc, task_result,
               finished, chunk_files, errors, b_pc>>

seqVars == <<q_chunks, q_i, q_files, q_failed, q_pc>>

apiVars == <<a_chunks, merge_chunks, keep_chunks, a_semaphore, a_task, a_files,
             a_result, a_task_rec, conv_pc>>

runVars == <<runs, first_chunks>>

srtVars == <<srt_maker, fed, srt_content, srt_pc>>

synthVars == <<generate_srt, s_pc, s_events, s_maker, s_ret, fs_exists, fs_content>>

\* the groups of the pipeline, and the groups of the components below it
upperVars == <<segVars, batchVars, seqVars, apiVars>>

mergeVars == <<m_chunk_files, m_keep, m_fs, m_list, m_probe, m_exit, m_calls, m_pos, m_attempts,
               m_failed, m_ret, m_pc>>

dlVars == <<d_task_id, d_filename, d_response>>

storyVars == <<cs_moved, cs_pc>>

guiVars == <<is_converting, threads, after_calls, shown, clicks>>

moreVars == <<storyVars, guiVars>>

lowerVars == <<mergeVars, dlVars, moreVars>>

restVars == <<runVars, srtVars, synthVars, lowerVars>>

vars == <<segVars, batchVars, seqVars, apiVars, restVars>>

(***************************************************************************)
(* Bounds of the model.                                                    *)
(***************************************************************************)
MaxTextLen == 5
MaxChunkSize == 3
MaxChunks == 5
MaxLimit == 3
MaxWideLen == 6
MaxEvents == 2
MaxStream == 2

\* the largest number of chunk files handed to the merge
MaxMergeFiles == 3

\* the largest number of chunks of a conversion whose files are downloaded
MaxDownloadChunks == 2

\* chunks of a batch run under fairness
MaxFairChunks == 2

\* chunks of a conversion whose task is deleted or cancelled
MaxRegistryChunks == 2

\* calls of start_conversion in the life of a window
MaxClicks == 3

(***************************************************************************)
(* Characters.  str.strip() and the regex class \s agree on whitespace;    *)
(* the alphabet has two whitespace characters, one sentence terminator,    *)
(* the comma and one ordinary letter.                                      *)
(***************************************************************************)
Alphabet == {"a", ".", ",", " ", "\n"}

IsSpace(c) == c \in {" ", "\n", "\t", "\r"}

IsTerminator(c) == c \in {".", "!", "?"}

MinNat(a, b) == IF a <= b THEN a ELSE b

SetMax(S) == CHOOSE x \in S : \A y \in S : y <= x

SetMin(S) == CHOOSE x \in S : \A y \in S : x <= y

\* Python s[a:b] for 0 <= a, 0 <= b (clamped to the length, empty if a >= b)
PySliceShort(s, a, b) == SubSeq(s, a + 1, MinNat(b, Len(s)) - 1)

PySlice(s, a, b) == SubSeq(s, a + 1, MinNat(b, Len(s)))

\* str.strip(): drop leading and trailing whitespace
Strip(s) ==
    LET keep == {i \in 1..Len(s) : ~IsSpace(s[i])}
    IN  IF keep = {} THEN <<>> ELSE SubSeq(s, SetMin(keep), SetMax(keep))

(***************************************************************************)
(* The four break patterns, as re.finditer sees them.  MatchAt gives the   *)
(* end (Python's match.end(), 0-based exclusive) of the match of the       *)
(* pattern that starts at 1-based position p of s, or NoMatch.             *)
(***************************************************************************)
NoMatch == -1

\* last position of the maximal whitespace run that starts at p (p is whitespace)
RunEnd(s, p) ==
    SetMax({j \in p..Len(s) : \A k \in p..j : IsSpace(s[k])})

MatchAt(pat, s, p) ==
    CASE pat = "sentence" ->       \* [.!?]\s+
            IF IsTerminator(s[p]) /\ p < Len(s) /\ IsSpace(s[p + 1])
            THEN RunEnd(s, p + 1) ELSE NoMatch
      [] pat = "paragraph" ->      \* \n\s*\n  (greedy \s*, backtracking to the last \n)
            IF s[p] = "\n"
            THEN LET nl == {j \in (p + 1)..RunEnd(s, p) : s[j] = "\n"}
                 IN  IF nl = {} THEN NoMatch ELSE SetMax(nl)
            ELSE NoMatch
      [] pat = "comma" ->          \* ,\s+
            IF s[p] = "," /\ p < Len(s) /\ IsSpace(s[p + 1])
            THEN RunEnd(s, p + 1) ELSE NoMatch
      [] pat = "space" ->          \* \s+
            IF IsSpace(s[p]) THEN RunEnd(s, p) ELSE NoMatch

\* list(re.finditer(pat, s))[-1].end(): scan left to right, matches do not
\* overlap; `last` is the end of the last match found so far
RECURSIVE ScanFrom(_, _, _, _)
ScanFrom(pat, s, p, last) ==
    IF p > Len(s) THEN last
    ELSE LET e == MatchAt(pat, s, p)
         IN  IF e = NoMatch THEN ScanFrom(pat, s, p + 1, last)
             ELSE ScanFrom(pat, s, e + 1, e)

LastMatchEnd(pat, s) == ScanFrom(pat, s, 1, NoMatch)

\* break_patterns with the comma tried before the paragraph break
BreakPatternsCommaFirst == <<"comma", "paragraph", "space">>

\* break_patterns, tried in order after the sentence pattern
BreakPatterns == <<"paragraph", "comma", "space">>

RECURSIVE FirstBreak(_, _)
FirstBreak(s, k) ==
    IF k > Len(BreakPatterns) THEN NoMatch
    ELSE LET e == LastMatchEnd(BreakPatterns[k], s)
         IN  IF e # NoMatch THEN e ELSE FirstBreak(s, k + 1)

\* a break offset taken as an absolute position (search_start forgotten)
ActualEndNoOffset(t, pos, cmin, target_end) ==
    LET search_start == pos + cmin
        search_text == PySlice(t, search_start, target_end)
        sent == LastMatchEnd("sentence", search_text)
        other == FirstBreak(search_text, 1)
    IN  IF sent # NoMatch THEN sent
        ELSE IF other # NoMatch THEN other
        ELSE target_end

\* actual_end of one non-final iteration
ActualEnd(t, pos, cmin, target_end) ==
    LET search_start == pos + cmin
        search_text == PySlice(t, search_start, target_end)
        sent == LastMatchEnd("sentence", search_text)
        other == FirstBreak(search_text, 1)
    IN  IF sent # NoMatch THEN search_start + sent
        ELSE IF other # NoMatch THEN search_start + other
        ELSE target_end

\* chunks.append(chunk) without the `if chunk:` test
AppendAlways(cs, chunk) == Append(cs, chunk)

\* if chunk: chunks.append(chunk)
AppendChunk(cs, chunk) == IF chunk # <<>> THEN Append(cs, chunk) ELSE cs

TargetEnd(t, pos, cmax) == MinNat(pos + cmax, Len(t))

(***************************************************************************)
(* split_text_into_chunks as a state machine.                              *)
(***************************************************************************)
Texts == UNION {[1..n -> Alphabet] : n \in 0..MaxTextLen}

SegIdle ==
    /\ text = <<>>
    /\ chunk_min = 0
    /\ chunk_max = 0
    /\ current_pos = 0
    /\ chunks = <<>>
    /\ seg_pc = "idle"

SegStart ==
    /\ text \in Texts
    /\ chunk_max \in 1..MaxChunkSize
    /\ chunk_min \in 1..chunk_max
    /\ current_pos = 0
    /\ chunks = <<>>
    /\ seg_pc = "loop"

\* texts long enough for a search window that holds two different breaks
WideTexts == UNION {[1..n -> Alphabet] : n \in {0, MaxWideLen}}

SegStartWide ==
    /\ text \in WideTexts
    /\ chunk_min = 1
    /\ chunk_max \in (MaxWideLen - 2)..(MaxWideLen - 1)
    /\ current_pos = 0
    /\ chunks = <<>>
    /\ seg_pc = "loop"

\* while current_pos < text_length: condition false
SegExit ==
    /\ seg_pc = "loop"
    /\ UNCHANGED <<batchVars, seqVars, apiVars, restVars>>
    /\ ~(current_pos < Len(text))
    /\ seg_pc' = "done"
    /\ UNCHANGED <<text, chunk_min, chunk_max, current_pos, chunks>>

\* target_end == text_length: the tail is the final chunk, break
SegFinal ==
    /\ seg_pc = "loop"
    /\ UNCHANGED <<batchVars, seqVars, apiVars, restVars>>
    /\ current_pos < Len(text)
    /\ TargetEnd(text, current_pos, chunk_max) = Len(text)
    /\ chunks' = AppendChunk(chunks, Strip(PySlice(text, current_pos, Len(text))))
    /\ seg_pc' = "done"
    /\ UNCHANGED <<text, chunk_min, chunk_max, current_pos>>

\* a non-final iteration: choose the cut, emit the chunk, advance
SegCut ==
    /\ seg_pc = "loop"
    /\ UNCHANGED <<batchVars, seqVars, apiVars, restVars>>
    /\ current_pos < Len(text)
    /\ TargetEnd(text, current_pos, chunk_max) # Len(text)
    /\ LET actual_end == ActualEnd(text, current_pos, chunk_min,
                                   TargetEnd(text, current_pos, chunk_max))
       IN  /\ chunks' = AppendChunk(chunks, Strip(PySlice(text, current_pos, actual_end)))
           /\ current_pos' = actual_end
    /\ UNCHANGED <<text, chunk_min, chunk_max, seg_pc>>

\* the chunk list of a call that starts from what the previous call left
LeftoverChunks == chunks

\* chunks = []: every call starts with a list of its own
EmptyChunks == <<>>

\* the function has returned and is called again with the same arguments
SegRestart ==
    /\ seg_pc = "done"
    /\ runs = 0
    /\ UNCHANGED <<batchVars, seqVars, apiVars, srtVars, synthVars, lowerVars>>
    /\ first_chunks' = chunks
    /\ runs' = runs + 1
    /\ chunks' = EmptyChunks
    /\ current_pos' = 0
    /\ seg_pc' = "loop"
    /\ UNCHANGED <<text, chunk_min, chunk_max>>

SegNext == SegExit \/ SegFinal \/ SegCut

(***************************************************************************)
(* TTSConverter.generate_all_chunks: one task per chunk behind a shared    *)
(* semaphore, gathered, sorted by index and partitioned.                   *)
(***************************************************************************)
\* Python's None; every other value of the model is a non-empty tuple, a record,
\* a number or a string kept apart from it
None == <<>>

\* the text of a chunk as the segmenter emits it (trimmed, not blank)
ChunkText == <<"a", ".">>

ChunkLists == {[i \in 1..n |-> ChunkText] : n \in 1..MaxChunks}

\* f"{prefix}_{chunk_num:03d}.mp3"
AudioName(index) == <<"chunk", index, "mp3">>

\* what generate_chunk_audio_robust returns with generate_srt left False
ChunkFile(index) == <<AudioName(index), None>>

\* the chunk index a chunk file was written for
IndexOfFile(chunk_file) == chunk_file[1][2]

ErrorText(index) == <<"TTS generation failed for chunk", index>>

\* the test inverted: every chunk with text is skipped
SkipsNonBlank(chunk) == Strip(chunk) # <<>>

\* if not chunk.strip(): continue
SkipsChunk(chunk) == Strip(chunk) = <<>>

\* for i, chunk in enumerate(chunks, 1): the indices that get a task
RECURSIVE TaskIndices(_, _)
TaskIndices(chs, i) ==
    IF i > Len(chs) THEN <<>>
    ELSE IF SkipsChunk(chs[i]) THEN TaskIndices(chs, i + 1)
    ELSE <<i>> \o TaskIndices(chs, i + 1)

\* the gate lets every task in
SemNeverLocked(value) == TRUE

\* async with semaphore: a task enters only while the value is positive
SemAcquirable(value) == value > 0

\* a task that reports the failure and a file as well
ResultTripleWithBoth(index, ok) ==
    <<index, ChunkFile(index), IF ok THEN None ELSE ErrorText(index)>>

\* the triple generate_chunk_with_semaphore returns
ResultTriple(index, ok) ==
    IF ok THEN <<index, ChunkFile(index), None>>
    ELSE <<index, None, ErrorText(index)>>

\* results = await asyncio.gather(*tasks): the results in the order of the tasks
Gather(ts, res) == [k \in 1..Len(ts) |-> res[ts[k]]]

RECURSIVE InsertByIndex(_, _)
InsertByIndex(sorted, r) ==
    IF sorted = <<>> THEN <<r>>
    ELSE IF r[1] < Head(sorted)[1] THEN <<r>> \o sorted
    ELSE <<Head(sorted)>> \o InsertByIndex(Tail(sorted), r)

RECURSIVE SortAscending(_)
SortAscending(results) ==
    IF results = <<>> THEN <<>>
    ELSE InsertByIndex(SortAscending(SubSeq(results, 1, Len(results) - 1)),
                       results[Len(results)])

Reverse(s) == [k \in 1..Len(s) |-> s[Len(s) + 1 - k]]

\* sorted(..., reverse=True)
SortByIndexReversed(results) == Reverse(SortAscending(results))

\* sorted(results, key=lambda x: x[0])
SortByIndex(results) == SortAscending(results)

\* the loop leaves at the first failed chunk
RECURSIVE PartitionStopAtError(_)
PartitionStopAtError(sorted) ==
    IF sorted = <<>> THEN [files |-> <<>>, errors |-> <<>>]
    ELSE IF Head(sorted)[2] # None
         THEN LET rest == PartitionStopAtError(Tail(sorted))
              IN  [files |-> <<Head(sorted)[2]>> \o rest.files, errors |-> rest.errors]
         ELSE [files |-> <<>>, errors |-> <<<<Head(sorted)[1], Head(sorted)[3]>>>>]

\* for index, chunk_file, error in sorted(...): chunk_files / errors
RECURSIVE Partition(_)
Partition(sorted) ==
    IF sorted = <<>> THEN [files |-> <<>>, errors |-> <<>>]
    ELSE LET rest == Partition(Tail(sorted))
             r == Head(sorted)
         IN  IF r[2] # None
             THEN [files |-> <<r[2]>> \o rest.files, errors |-> rest.errors]
             ELSE [files |-> rest.files, errors |-> <<<<r[1], r[3]>>>> \o rest.errors]

\* the batch is given up as soon as one chunk failed
BatchFailsOnAnyError(files, errs) == errs # <<>>

\* if not chunk_files: raise RuntimeError("No audio chunks were successfully generated")
BatchFails(files, errs) == files = <<>>

BatchIdle ==
    /\ b_chunks = <<>>
    /\ max_concurrent_chunks = 0
    /\ semaphore = 0
    /\ tasks = <<>>
    /\ task_pc = <<>>
    /\ task_result = <<>>
    /\ finished = <<>>
    /\ chunk_files = <<>>
    /\ errors = <<>>
    /\ b_pc = "idle"

BatchStart ==
    /\ b_chunks \in ChunkLists
    /\ max_concurrent_chunks \in 1..MaxLimit
    /\ semaphore = 0
    /\ tasks = <<>>
    /\ task_pc = [i \in 1..Len(b_chunks) |-> "none"]
    /\ task_result = [i \in 1..Len(b_chunks) |-> None]
    /\ finished = <<>>
    /\ chunk_files = <<>>
    /\ errors = <<>>
    /\ b_pc = "start"

\* semaphore created, one task per chunk that is not skipped, gather awaited
CreateTasks ==
    /\ b_pc = "start"
    /\ UNCHANGED <<segVars, seqVars, apiVars, restVars>>
    /\ semaphore' = max_concurrent_chunks
    /\ tasks' = TaskIndices(b_chunks, 1)
    /\ task_pc' = [i \in 1..Len(b_chunks) |->
                     IF \E k \in 1..Len(tasks') : tasks'[k] = i THEN "waiting" ELSE "none"]
    /\ b_pc' = "gather"
    /\ UNCHANGED <<b_chunks, max_concurrent_chunks, task_result, finished,
                   chunk_files, errors>>

\* a task passes `async with semaphore` and starts generate_chunk_audio_robust
Acquire(i) ==
    /\ task_pc[i] = "waiting"
    /\ UNCHANGED <<segVars, seqVars, apiVars, restVars>>
    /\ SemAcquirable(semaphore)
    /\ semaphore' = semaphore - 1
    /\ task_pc' = [task_pc EXCEPT ![i] = "running"]
    /\ UNCHANGED <<b_chunks, max_concurrent_chunks, tasks, task_result, finished,
                   chunk_files, errors, b_pc>>

\* a permit that is given back only by a task whose synthesis succeeded
SemReleaseOnSuccess(value, ok) == IF ok THEN value + 1 ELSE value

\* leaving `async with semaphore`: both return statements are inside the
\* block, so __aexit__ releases after a success and after a failure
SemRelease(value, ok) == value + 1

\* generate_chunk_audio_robust returns or raises; the task returns its triple
\* and leaves the semaphore
Complete(i, ok) ==
    /\ task_pc[i] = "running"
    /\ UNCHANGED <<segVars, seqVars, apiVars, restVars>>
    /\ task_result' = [task_result EXCEPT ![i] = ResultTriple(i, ok)]
    /\ task_pc' = [task_pc EXCEPT ![i] = "done"]
    /\ semaphore' = SemRelease(semaphore, ok)
    /\ finished' = Append(finished, i)
    /\ UNCHANGED <<b_chunks, max_concurrent_chunks, tasks, chunk_files, errors, b_pc>>

ChunkSucceeds(i) == Complete(i, TRUE)

ChunkFails(i) == Complete(i, FALSE)

\* gather returns once every task is done; sort, partition, raise or return
Finish ==
    /\ b_pc = "gather"
    /\ UNCHANGED <<segVars, seqVars, apiVars, restVars>>
    /\ \A k \in 1..Len(tasks) : task_pc[tasks[k]] = "done"
    /\ LET parts == Partition(SortByIndex(Gather(tasks, task_result)))
       IN  /\ chunk_files' = parts.files
           /\ errors' = parts.errors
           /\ b_pc' = IF BatchFails(parts.files, parts.errors) THEN "raised" ELSE "returned"
    /\ UNCHANGED <<b_chunks, max_concurrent_chunks, semaphore, tasks, task_pc,
                   task_result, finished>>

BatchNext ==
    \/ CreateTasks
    \/ \E i \in 1..Len(b_chunks) : Acquire(i)
    \/ \E i \in 1..Len(b_chunks) : ChunkSucceeds(i)
    \/ \E i \in 1..Len(b_chunks) : ChunkFails(i)
    \/ Finish

(***************************************************************************)
(* TTSConverter.generate_all_chunks of tts_converter.py: the same batch,   *)
(* one chunk after the other.                                              *)
(***************************************************************************)
\* f"chunk_{chunk_num:03d}.mp3"
SeqAudioName(index) == <<"chunk", index, "mp3">>

SeqIdle ==
    /\ q_chunks = <<>>
    /\ q_i = 0
    /\ q_files = <<>>
    /\ q_failed = <<>>
    /\ q_pc = "idle"

SeqStart ==
    /\ q_chunks \in ChunkLists
    /\ q_i = 1
    /\ q_files = <<>>
    /\ q_failed = <<>>
    /\ q_pc = "loop"

\* one pass of the for loop: skip a blank chunk, else generate_chunk_audio
\* returns (ok) or raises (not ok) and the loop goes on
SeqIterate(ok) ==
    /\ q_pc = "loop"
    /\ UNCHANGED <<segVars, batchVars, apiVars, restVars>>
    /\ q_i <= Len(q_chunks)
    /\ IF SkipsChunk(q_chunks[q_i]) THEN UNCHANGED <<q_files, q_failed>>
       ELSE IF ok THEN /\ q_files' = Append(q_files, SeqAudioName(q_i))
                       /\ UNCHANGED q_failed
       ELSE /\ q_failed' = Append(q_failed, q_i)
            /\ UNCHANGED q_files
    /\ q_i' = q_i + 1
    /\ UNCHANGED <<q_chunks, q_pc>>

SeqChunkSucceeds == SeqIterate(TRUE)

SeqChunkFails == SeqIterate(FALSE)

\* after the loop: raise if nothing was generated, else return chunk_files
SeqFinish ==
    /\ q_pc = "loop"
    /\ UNCHANGED <<segVars, batchVars, apiVars, restVars>>
    /\ q_i > Len(q_chunks)
    /\ q_pc' = IF BatchFails(q_files, q_failed) THEN "raised" ELSE "returned"
    /\ UNCHANGED <<q_chunks, q_i, q_files, q_failed>>

SeqNext == SeqChunkSucceeds \/ SeqChunkFails \/ SeqFinish

(***************************************************************************)
(* TTSConverterAPI.convert, run by run_conversion as a background task.    *)
(***************************************************************************)
ApiConcurrency == 3

ApiChunkLists == {[i \in 1..n |-> ChunkText] : n \in 0..MaxChunks}

\* the task's output folder, made when run_conversion creates its converter,
\* is there until delete_task removes it together with the registry entry
FolderExists(rec) == rec # None

\* conversion_tasks[task_id] as convert_text creates it
NewTaskRecord ==
    [status |-> "processing", progress |-> <<0, 10>>, message |-> <<"Starting conversion...">>,
     result |-> None, error |-> None]

\* update_progress(message, progress): nothing when the task is not in the
\* registry (rec is None); progress is kept when None is passed
UpdateProgress(rec, message, progress) ==
    IF rec = None THEN rec
    ELSE IF progress = None THEN [rec EXCEPT !.message = message]
    ELSE [rec EXCEPT !.message = message, !.progress = progress]

ApiAudioName(index) == <<"audio", index, "mp3">>

\* f"{output_prefix}_merged.mp3" (no chunk has index 0)
MergedName == <<"audio", 0, "mp3">>

ApiRunning == {i \in 1..Len(a_chunks) : a_task[i] = "running"}

ApiUnfinished == {i \in 1..Len(a_chunks) : a_task[i] \in {"waiting", "running"}}

\* a failure that records the status and leaves the error unset
ConversionFailedNoError(rec, why) ==
    IF rec = None THEN rec
    ELSE [UpdateProgress(rec, <<"Error", why>>, None) EXCEPT !.status = "failed"]

\* run_conversion's except branch after convert's own except branch; with the
\* task gone from the registry the subscript raises and nothing is written
ConversionFailed(rec, why) ==
    IF rec = None THEN rec
    ELSE [UpdateProgress(rec, <<"Error", why>>, None)
             EXCEPT !.status = "failed", !.error = why]

\* convert's last update and run_conversion's three assignments; with the
\* task gone from the registry the first subscript raises
ConversionCompleted(rec, result) ==
    IF rec = None THEN rec
    ELSE [UpdateProgress(rec, <<"Conversion completed!">>, <<10, 10>>)
             EXCEPT !.status = "completed", !.result = result, !.progress = <<10, 10>>]

\* how run_conversion ends: conversion_tasks[task_id][...] raises KeyError
\* when the task is gone, in the try block and again in the except block,
\* and the second KeyError leaves run_conversion
RunConversionEnds(rec, pc) == IF rec = None THEN "unhandled" ELSE pc

ApiIdle ==
    /\ a_chunks = <<>>
    /\ merge_chunks = FALSE
    /\ keep_chunks = FALSE
    /\ a_semaphore = 0
    /\ a_task = <<>>
    /\ a_files = {}
    /\ a_result = None
    /\ a_task_rec = None
    /\ conv_pc = "idle"

ApiStart ==
    /\ a_chunks \in ApiChunkLists
    /\ merge_chunks \in BOOLEAN
    /\ keep_chunks \in BOOLEAN
    /\ a_semaphore = 0
    /\ a_task = [i \in 1..Len(a_chunks) |-> "waiting"]
    /\ a_files = {}
    /\ a_result = None
    /\ a_task_rec = NewTaskRecord
    /\ conv_pc = "start"

\* convert up to `await asyncio.gather(*tasks)`; no chunks is a ValueError
ConvertBegin ==
    /\ conv_pc = "start"
    /\ UNCHANGED <<segVars, batchVars, seqVars, restVars>>
    /\ IF a_chunks = <<>>
       THEN /\ a_task_rec' = ConversionFailed(
                  UpdateProgress(a_task_rec, <<"Splitting text into chunks...">>, <<1, 10>>),
                  <<"No valid chunks created from text">>)
            /\ conv_pc' = RunConversionEnds(a_task_rec, "raised")
            /\ UNCHANGED a_semaphore
       ELSE /\ a_task_rec' = UpdateProgress(a_task_rec,
                                 <<"Generating audio chunks", Len(a_chunks)>>, <<2, 10>>)
            /\ a_semaphore' = ApiConcurrency
            /\ conv_pc' = "gather"
    /\ UNCHANGED <<a_chunks, merge_chunks, keep_chunks, a_task, a_files, a_result>>

\* generate_with_progress enters the semaphore, reports progress and opens the
\* chunk's audio file for writing
ApiAcquire(i) ==
    /\ conv_pc # "start"
    /\ UNCHANGED <<segVars, batchVars, seqVars, restVars>>
    /\ a_task[i] = "waiting"
    /\ SemAcquirable(a_semaphore)
    /\ a_semaphore' = a_semaphore - 1
    /\ a_task_rec' = UpdateProgress(a_task_rec, <<"Generating chunk", i, Len(a_chunks)>>,
                                    <<2 * Len(a_chunks) + 6 * i, 10 * Len(a_chunks)>>)
    /\ a_files' = IF FolderExists(a_task_rec) THEN a_files \cup {ApiAudioName(i)} ELSE a_files
    /\ a_task' = [a_task EXCEPT ![i] = "running"]
    /\ UNCHANGED <<a_chunks, merge_chunks, keep_chunks, a_result, conv_pc>>

\* the stream ends with audio written and output_path.exists():
\* generate_chunk_audio returns the path
ApiChunkOk(i) ==
    /\ a_task[i] = "running"
    /\ ApiAudioName(i) \in a_files
    /\ UNCHANGED <<segVars, batchVars, seqVars, restVars>>
    /\ a_task' = [a_task EXCEPT ![i] = "ok"]
    /\ a_semaphore' = a_semaphore + 1
    /\ UNCHANGED <<a_chunks, merge_chunks, keep_chunks, a_files, a_result, a_task_rec,
                   conv_pc>>

\* generate_chunk_audio raises: the partial file is removed, the error leaves
\* generate_with_progress uncaught
ApiChunkFail(i) ==
    /\ a_task[i] = "running"
    /\ UNCHANGED <<segVars, batchVars, seqVars, restVars>>
    /\ a_task' = [a_task EXCEPT ![i] = "failed"]
    /\ a_files' = a_files \ {ApiAudioName(i)}
    /\ a_semaphore' = a_semaphore + 1
    /\ UNCHANGED <<a_chunks, merge_chunks, keep_chunks, a_result, a_task_rec, conv_pc>>

\* gather (return_exceptions left False) hands the first exception to convert,
\* which reports it and re-raises; run_conversion marks the task failed
GatherRaises ==
    /\ conv_pc = "gather"
    /\ UNCHANGED <<segVars, batchVars, seqVars, restVars>>
    /\ \E i \in 1..Len(a_chunks) : a_task[i] = "failed"
    /\ a_task_rec' = ConversionFailed(a_task_rec, <<"TTS generation failed">>)
    /\ conv_pc' = RunConversionEnds(a_task_rec, "raised")
    /\ UNCHANGED <<a_chunks, merge_chunks, keep_chunks, a_semaphore, a_task, a_files,
                   a_result>>

\* gather returns the paths of all chunks, in task order
GatherReturns ==
    /\ conv_pc = "gather"
    /\ UNCHANGED <<segVars, batchVars, seqVars, restVars>>
    /\ \A i \in 1..Len(a_chunks) : a_task[i] = "ok"
    /\ LET result == [chunks |-> [i \in 1..Len(a_chunks) |-> ApiAudioName(i)],
                      chunk_count |-> Len(a_chunks),
                      merged_file |-> None]
       IN  IF merge_chunks
           THEN /\ a_result' = result
                /\ a_task_rec' = UpdateProgress(a_task_rec, <<"Merging chunks...">>, <<9, 10>>)
                /\ conv_pc' = "merge"
           ELSE /\ a_result' = result
                /\ a_task_rec' = ConversionCompleted(a_task_rec, result)
                /\ conv_pc' = RunConversionEnds(a_task_rec, "returned")
    /\ UNCHANGED <<a_chunks, merge_chunks, keep_chunks, a_semaphore, a_task, a_files>>

\* merge_with_ffmpeg returns the merged path or None; convert returns
MergeStep(merged) ==
    /\ conv_pc = "merge"
    /\ merged => FolderExists(a_task_rec)
    /\ UNCHANGED <<segVars, batchVars, seqVars, restVars>>
    /\ LET result == IF merged THEN [a_result EXCEPT !.merged_file = MergedName]
                               ELSE a_result
       IN  /\ a_result' = result
           /\ a_task_rec' = ConversionCompleted(a_task_rec, result)
    /\ a_files' = IF ~merged THEN a_files
                  ELSE IF keep_chunks THEN a_files \cup {MergedName}
                  ELSE {MergedName}
    /\ conv_pc' = RunConversionEnds(a_task_rec, "returned")
    /\ UNCHANGED <<a_chunks, merge_chunks, keep_chunks, a_semaphore, a_task>>

ApiNext ==
    \/ ConvertBegin
    \/ \E i \in 1..Len(a_chunks) : ApiAcquire(i)
    \/ \E i \in 1..Len(a_chunks) : ApiChunkOk(i)
    \/ \E i \in 1..Len(a_chunks) : ApiChunkFail(i)
    \/ GatherRaises
    \/ GatherReturns
    \/ \E merged \in BOOLEAN : MergeStep(merged)

(***************************************************************************)
(* CustomSRTMaker: cues from SentenceBoundary events.                      *)
(*                                                                         *)
(* A tick count (offset, duration: 100 ns units) is a pair <<hi, lo>> that *)
(* stands for hi * TickLimb + lo, so that hours fit the integers of the    *)
(* model.  A float number of milliseconds is a record: whole milliseconds  *)
(* and a fraction counted in 1/TicksPerMs of a millisecond.                *)
(***************************************************************************)
TicksPerMs == 10000
MsPerHour == 3600000
MsPerMinute == 60000
MsPerSecond == 1000
TickLimb == 100000000

\* ticks / 10000
TrueDiv(ticks) ==
    [whole |-> ticks[1] * (TickLimb \div TicksPerMs) + ticks[2] \div TicksPerMs,
     frac  |-> ticks[2] % TicksPerMs]

\* an end that is the duration alone, not counted from the start
DurationAsEnd(a, b) == b

\* a sum that drops the fractions of its operands
FloatAddTruncating(a, b) == [whole |-> a.whole + b.whole, frac |-> 0]

\* start_ms + duration_ms
FloatAdd(a, b) ==
    [whole |-> a.whole + b.whole + (a.frac + b.frac) \div TicksPerMs,
     frac  |-> (a.frac + b.frac) % TicksPerMs]

DigitChars == <<"0", "1", "2", "3", "4", "5", "6", "7", "8", "9">>

\* str(n) for n >= 0
RECURSIVE Decimal(_)
Decimal(n) ==
    IF n < 10 THEN <<DigitChars[n + 1]>>
    ELSE Decimal(n \div 10) \o <<DigitChars[(n % 10) + 1]>>

\* f"{n:0{width}d}"
ZeroPad(n, width) ==
    LET d == Decimal(n)
    IN  IF Len(d) >= width THEN d ELSE [i \in 1..(width - Len(d)) |-> "0"] \o d

\* _ms_to_srt_time: int() of a float floor division or remainder keeps the
\* whole part
ms_to_srt_time(milliseconds) ==
    LET hours == milliseconds.whole \div MsPerHour
        minutes == (milliseconds.whole % MsPerHour) \div MsPerMinute
        seconds == (milliseconds.whole % MsPerMinute) \div MsPerSecond
        ms == milliseconds.whole % MsPerSecond
    IN  ZeroPad(hours, 2) \o <<":">> \o ZeroPad(minutes, 2) \o <<":">>
            \o ZeroPad(seconds, 2) \o <<",">> \o ZeroPad(ms, 3)

\* CustomSRTMaker(): self.cues = [], self.cue_index = 1
CustomSRTMaker == [cues |-> <<>>, cue_index |-> 1]

\* self.cues.insert(0, cue): the newest cue first
AcceptCueInFront(maker, cue) ==
    IF cue.text # <<>>
    THEN [cues |-> <<cue>> \o maker.cues, cue_index |-> maker.cue_index + 1]
    ELSE maker

\* the cue is stored whatever its text
AcceptCueAlways(maker, cue) ==
    [cues |-> Append(maker.cues, cue), cue_index |-> maker.cue_index + 1]

\* the number is consumed whatever the text
AcceptCueCountsBlank(maker, cue) ==
    [cues |-> IF cue.text # <<>> THEN Append(maker.cues, cue) ELSE maker.cues,
     cue_index |-> maker.cue_index + 1]

\* if cue['text']: self.cues.append(cue); self.cue_index += 1
AcceptCue(maker, cue) ==
    IF cue.text # <<>>
    THEN [cues |-> Append(maker.cues, cue), cue_index |-> maker.cue_index + 1]
    ELSE maker

\* a feed_sentence without the test of the event type
feed_any_event(maker, sentence_chunk) ==
    LET start_ms == TrueDiv(sentence_chunk.offset)
        end_ms == FloatAdd(start_ms, TrueDiv(sentence_chunk.duration))
    IN  AcceptCue(maker, [index |-> maker.cue_index,
                          start |-> ms_to_srt_time(start_ms),
                          end   |-> ms_to_srt_time(end_ms),
                          text  |-> Strip(sentence_chunk.text)])

feed_sentence(maker, sentence_chunk) ==
    IF sentence_chunk.type # "SentenceBoundary" THEN maker
    ELSE LET start_ms == TrueDiv(sentence_chunk.offset)
             duration_ms == TrueDiv(sentence_chunk.duration)
             end_ms == FloatAdd(start_ms, duration_ms)
             cue == [index |-> maker.cue_index,
                     start |-> ms_to_srt_time(start_ms),
                     end   |-> ms_to_srt_time(end_ms),
                     text  |-> Strip(sentence_chunk.text)]
         IN  AcceptCue(maker, cue)

\* the lines of a cue without the empty line that closes it
CueLinesNoBlank(cue) ==
    <<Decimal(cue.index), cue.start \o <<" ", "-", "-", ">", " ">> \o cue.end, cue.text>>

\* the four srt_lines.append calls of one cue
CueLines(cue) ==
    <<Decimal(cue.index), cue.start \o <<" ", "-", "-", ">", " ">> \o cue.end,
      cue.text, <<>>>>

RECURSIVE SrtLines(_)
SrtLines(cs) == IF cs = <<>> THEN <<>> ELSE CueLines(Head(cs)) \o SrtLines(Tail(cs))

\* "\n".join(lines)
RECURSIVE JoinLines(_)
JoinLines(lines) ==
    IF lines = <<>> THEN <<>>
    ELSE IF Len(lines) = 1 THEN Head(lines)
    ELSE Head(lines) \o <<"\n">> \o JoinLines(Tail(lines))

get_srt(maker) ==
    IF maker.cues = <<>> THEN <<>> ELSE JoinLines(SrtLines(maker.cues))

(***************************************************************************)
(* A CustomSRTMaker fed with events and asked for its SRT text.            *)
(***************************************************************************)
\* offsets: 0, just under 1 ms, one tick short of one hour, 100 hours and half
\* a millisecond
Offsets == {<<0, 0>>, <<0, 9999>>, <<359, 99999999>>, <<36000, 5000>>}

\* durations: one tick, half a millisecond, 2.5 seconds
Durations == {<<0, 1>>, <<0, 5000>>, <<0, 25000000>>}

\* sentence texts: one to be trimmed, one blank
SentenceTexts == {<<" ", "a", " ">>, <<" ">>}

SentenceEvents ==
    [type : {"SentenceBoundary"}, offset : Offsets, duration : Durations,
     text : SentenceTexts, data : {<<>>}]

\* a word event, and an audio event (it has no offset, duration or text)
OtherEvents ==
    {[type |-> "WordBoundary", offset |-> <<0, 0>>, duration |-> <<0, 1>>,
      text |-> <<"a">>, data |-> <<>>],
     [type |-> "audio", offset |-> <<0, 0>>, duration |-> <<0, 0>>,
      text |-> <<>>, data |-> <<>>]}

SrtIdle ==
    /\ srt_maker = CustomSRTMaker
    /\ fed = <<>>
    /\ srt_content = <<>>
    /\ srt_pc = "idle"

SrtStart ==
    /\ srt_maker = CustomSRTMaker
    /\ fed = <<>>
    /\ srt_content = <<>>
    /\ srt_pc = "feeding"

\* srt_maker.feed_sentence(event)
FeedSentence(event) ==
    /\ srt_pc \in {"feeding", "serialized"}
    /\ Len(fed) < MaxEvents
    /\ UNCHANGED <<upperVars, runVars, synthVars, lowerVars>>
    /\ srt_maker' = feed_sentence(srt_maker, event)
    /\ fed' = Append(fed, event)
    /\ srt_content' = <<>>
    /\ srt_pc' = "feeding"

\* srt_content = srt_maker.get_srt()
GetSrt ==
    /\ srt_pc = "feeding"
    /\ UNCHANGED <<upperVars, runVars, synthVars, lowerVars>>
    /\ srt_content' = get_srt(srt_maker)
    /\ srt_pc' = "serialized"
    /\ UNCHANGED <<srt_maker, fed>>

SrtNext ==
    \/ \E event \in SentenceEvents : FeedSentence(event)
    \/ \E event \in OtherEvents : FeedSentence(event)
    \/ GetSrt

(***************************************************************************)
(* generate_chunk_audio_robust: the audio of one chunk streamed into its   *)
(* file, with an optional SRT file.  Two calls run concurrently, as under  *)
(* asyncio.gather; a step of a call runs from one await to the next.       *)
(***************************************************************************)

\* the prefix argument of the calls of one batch
Prefix == <<"c", "h", "u", "n", "k">>

\* a name that keeps the last three digits of the chunk number only
output_filename_three_digits(prefix, chunk_num) ==
    prefix \o <<"_">> \o ZeroPad(chunk_num % 1000, 3) \o <<".mp3">>

\* output_filename = f"{prefix}_{chunk_num:03d}.mp3", as a sequence of characters
output_filename(prefix, chunk_num) ==
    prefix \o <<"_">> \o ZeroPad(chunk_num, 3) \o <<".mp3">>

\* srt_filename = f"{prefix}_{chunk_num:03d}.srt"
srt_filename(prefix, chunk_num) ==
    prefix \o <<"_">> \o ZeroPad(chunk_num, 3) \o <<".srt">>

\* chunk numbers around the widths at which {:03d} stops padding
WideChunkNumbers == {9, 10, 99, 100, 999, 1000, 1001}

SynthChunks == {1, 2}

\* srt_filename = f"{prefix}_{chunk_num:03d}.srt"
SrtName(index) == <<"chunk", index, "srt">>

FileNames == {AudioName(c) : c \in SynthChunks} \cup {SrtName(c) : c \in SynthChunks}

\* what the k-th event of the stream of chunk c can be: audio (one byte, marked
\* with the stream and the position), a sentence with text, a sentence with
\* blank text, a word
StreamEvents(c, k) ==
    {[type |-> "audio", offset |-> <<0, 0>>, duration |-> <<0, 0>>,
      text |-> <<>>, data |-> << <<c, k>> >>],
     [type |-> "SentenceBoundary", offset |-> <<0, 0>>, duration |-> <<0, 25000000>>,
      text |-> <<"a">>, data |-> <<>>],
     [type |-> "SentenceBoundary", offset |-> <<0, 0>>, duration |-> <<0, 25000000>>,
      text |-> <<" ">>, data |-> <<>>],
     [type |-> "WordBoundary", offset |-> <<0, 0>>, duration |-> <<0, 1>>,
      text |-> <<"a">>, data |-> <<>>]}

NoReturn == [kind |-> "none", chunk |-> 0, cause |-> <<>>, audio |-> None, srt |-> None]

\* return str(output_path), str(srt_path) if srt_path else None
SynthReturn(c, srt_path) ==
    [kind |-> "ok", chunk |-> c, cause |-> <<>>, audio |-> AudioName(c), srt |-> srt_path]

\* raise RuntimeError(f"TTS generation failed for chunk {chunk_num}: {e}")
SynthError(c, e) ==
    [kind |-> "error", chunk |-> c, cause |-> e, audio |-> None, srt |-> None]

\* data put in front of what the file holds
WritePrepend(content, data) == data \o content

\* f.write(chunk["data"])
WriteAppend(content, data) == content \o data

\* the except branch without the unlink of the SRT file
CleanupAudioOnly(exists, c, with_srt) == exists \ {AudioName(c)}

\* the unlink calls of the except branch; srt_path is None without generate_srt
Cleanup(exists, c, with_srt) ==
    (exists \ {AudioName(c)}) \ (IF with_srt THEN {SrtName(c)} ELSE {})

\* the SRT file written whatever get_srt returned
WritesSrtAlways(content) == TRUE

\* if srt_content:
WritesSrt(content) == content # <<>>

SynthIdle ==
    /\ generate_srt = FALSE
    /\ s_pc = [c \in SynthChunks |-> "idle"]
    /\ s_events = [c \in SynthChunks |-> <<>>]
    /\ s_maker = [c \in SynthChunks |-> CustomSRTMaker]
    /\ s_ret = [c \in SynthChunks |-> NoReturn]
    /\ fs_exists = {}
    /\ fs_content = [n \in FileNames |-> <<>>]

SynthStart ==
    /\ generate_srt \in BOOLEAN
    /\ s_pc = [c \in SynthChunks |-> "start"]
    /\ s_events = [c \in SynthChunks |-> <<>>]
    /\ s_maker = [c \in SynthChunks |-> CustomSRTMaker]
    /\ s_ret = [c \in SynthChunks |-> NoReturn]
    /\ fs_exists = {}
    /\ fs_content = [n \in FileNames |-> <<>>]

\* the except branch: unlink what exists, raise
SynthFails(c, e) ==
    /\ fs_exists' = Cleanup(fs_exists, c, generate_srt)
    /\ fs_content' = [n \in FileNames |->
                         IF n \in Cleanup(fs_exists, c, generate_srt)
                         THEN fs_content[n] ELSE <<>>]
    /\ s_ret' = [s_ret EXCEPT ![c] = SynthError(c, e)]
    /\ s_pc' = [s_pc EXCEPT ![c] = "raised"]

\* one accumulator for all calls: the call takes over what another call's
\* accumulator holds
SharedMaker(makers, c) == makers[CHOOSE d \in DOMAIN makers : d # c]

\* srt_maker = CustomSRTMaker(): a new object in every call
FreshMaker(makers, c) == CustomSRTMaker

\* srt_maker = CustomSRTMaker(); output_path.open("wb"); the stream is started
SynthOpen(c) ==
    /\ s_pc[c] = "start"
    /\ UNCHANGED <<upperVars, runVars, srtVars, lowerVars>>
    /\ s_maker' = [s_maker EXCEPT ![c] = FreshMaker(s_maker, c)]
    /\ fs_exists' = fs_exists \cup {AudioName(c)}
    /\ fs_content' = [fs_content EXCEPT ![AudioName(c)] = <<>>]
    /\ s_pc' = [s_pc EXCEPT ![c] = "streaming"]
    /\ UNCHANGED <<generate_srt, s_events, s_ret>>

\* one pass of the async for loop
StreamEvent(c, chunk) ==
    /\ s_pc[c] = "streaming"
    /\ Len(s_events[c]) < MaxStream
    /\ UNCHANGED <<upperVars, runVars, srtVars, lowerVars>>
    /\ s_events' = [s_events EXCEPT ![c] = Append(@, chunk)]
    /\ IF chunk.type = "audio"
       THEN /\ fs_content' = [fs_content EXCEPT
                                 ![AudioName(c)] = WriteAppend(@, chunk.data)]
            /\ UNCHANGED s_maker
       ELSE IF chunk.type = "SentenceBoundary" /\ generate_srt
       THEN /\ s_maker' = [s_maker EXCEPT ![c] = feed_sentence(@, chunk)]
            /\ UNCHANGED fs_content
       ELSE UNCHANGED <<s_maker, fs_content>>
    /\ UNCHANGED <<generate_srt, s_pc, s_ret, fs_exists>>

\* communicate.stream() raises
StreamRaises(c) ==
    /\ s_pc[c] = "streaming"
    /\ UNCHANGED <<upperVars, runVars, srtVars, lowerVars>>
    /\ SynthFails(c, <<"stream">>)
    /\ UNCHANGED <<generate_srt, s_events, s_maker>>

\* the audio file is removed from outside while the stream runs
Vanish(c) ==
    /\ s_pc[c] = "streaming"
    /\ AudioName(c) \in fs_exists
    /\ UNCHANGED <<upperVars, runVars, srtVars, lowerVars>>
    /\ fs_exists' = fs_exists \ {AudioName(c)}
    /\ UNCHANGED <<generate_srt, s_pc, s_events, s_maker, s_ret, fs_content>>

\* the stream ends: the checks of the audio file, the SRT file, the return
StreamEnds(c) ==
    /\ s_pc[c] = "streaming"
    /\ UNCHANGED <<upperVars, runVars, srtVars, lowerVars>>
    /\ IF AudioName(c) \notin fs_exists THEN SynthFails(c, <<"not created">>)
       ELSE IF fs_content[AudioName(c)] = <<>> THEN SynthFails(c, <<"empty">>)
       ELSE IF generate_srt /\ WritesSrt(get_srt(s_maker[c]))
       THEN /\ fs_exists' = fs_exists \cup {SrtName(c)}
            /\ fs_content' = [fs_content EXCEPT ![SrtName(c)] = get_srt(s_maker[c])]
            /\ s_ret' = [s_ret EXCEPT ![c] = SynthReturn(c, SrtName(c))]
            /\ s_pc' = [s_pc EXCEPT ![c] = "returned"]
       ELSE /\ s_ret' = [s_ret EXCEPT ![c] = SynthReturn(c, None)]
            /\ s_pc' = [s_pc EXCEPT ![c] = "returned"]
            /\ UNCHANGED <<fs_exists, fs_content>>
    /\ UNCHANGED <<generate_srt, s_events, s_maker>>

\* the stream ends with audio and cues, and srt_file.write raises after
\* open(srt_path, "w") created the file
SrtWriteFails(c) ==
    /\ s_pc[c] = "streaming"
    /\ AudioName(c) \in fs_exists
    /\ fs_content[AudioName(c)] # <<>>
    /\ generate_srt
    /\ WritesSrt(get_srt(s_maker[c]))
    /\ UNCHANGED <<upperVars, runVars, srtVars, lowerVars>>
    /\ fs_exists' = Cleanup(fs_exists \cup {SrtName(c)}, c, generate_srt)
    /\ fs_content' = [n \in FileNames |->
                         IF n \in Cleanup(fs_exists \cup {SrtName(c)}, c, generate_srt)
                         THEN fs_content[n] ELSE <<>>]
    /\ s_ret' = [s_ret EXCEPT ![c] = SynthError(c, <<"srt write">>)]
    /\ s_pc' = [s_pc EXCEPT ![c] = "raised"]
    /\ UNCHANGED <<generate_srt, s_events, s_maker>>

SynthNext ==
    \/ \E c \in SynthChunks : SynthOpen(c)
    \/ \E c \in SynthChunks : \E chunk \in StreamEvents(c, Len(s_events[c]) + 1) :
           StreamEvent(c, chunk)
    \/ \E c \in SynthChunks : StreamRaises(c)
    \/ \E c \in SynthChunks : Vanish(c)
    \/ \E c \in SynthChunks : StreamEnds(c)
    \/ \E c \in SynthChunks : SrtWriteFails(c)


(***************************************************************************)
(* try_merge_with_ffmpeg (tts_converter_py313.py, tts_gui_py313.py) and    *)
(* merge_with_ffmpeg (tts_api.py): probe for ffmpeg, write the manifest,   *)
(* run the concatenation, remove the manifest, and on success delete the   *)
(* chunk files when the caller did not ask to keep them.  ffmpeg is an     *)
(* external process: a run that exits 0 has written its output file.       *)
(***************************************************************************)
\* list_file = chunk_folder / "chunk_list.txt"
list_file == <<"chunk_list", 0, "txt">>

\* output_path = chunk_folder / output_filename
output_path == <<"merged", 0, "mp3">>

RECURSIVE Ascending(_)
\* the members of a set of chunk indices, in ascending order
Ascending(S) ==
    IF S = {} THEN <<>>
    ELSE LET lo == CHOOSE i \in S : \A j \in S : i <= j
         IN  <<lo>> \o Ascending(S \ {lo})

\* the chunk_files a caller passes: the files of the chunks that succeeded, by index
MergeInputs ==
    {[k \in 1..Len(Ascending(S)) |-> AudioName(Ascending(S)[k])] :
        S \in (SUBSET (1..MaxMergeFiles)) \ {{}}}

ProbeOutcomes == {"ok", "not found", "nonzero"}

\* the name of a path: Path(chunk_file).name, chunk_file.name; every chunk
\* file is named by its name in the chunk folder
NameOf(chunk_file) == chunk_file

\* the line f"file '{name}'" of the manifest
ManifestLine(name) == <<"file", name>>

\* a manifest written from the last chunk file to the first
ManifestLinesReversed(files) ==
    [k \in 1..Len(files) |-> ManifestLine(NameOf(files[Len(files) + 1 - k]))]

\* for chunk_file in chunk_files: f.write(f"file '{Path(chunk_file).name}'\n")
ManifestLines(files) == [k \in 1..Len(files) |-> ManifestLine(NameOf(files[k]))]

ConcatOutcomes == {"zero", "nonzero", "raised"}

\* a merge that goes on whatever the probe said
AvailableAlways(probe) == TRUE

\* subprocess.run(['ffmpeg', '-version'], check=True) returns without raising;
\* process.returncode == 0 in the API
Available(probe) == probe = "ok"

\* a merge that deletes the chunk files whatever the concatenation did
DeletesChunksOnAnyExit(exit, keep) == ~keep

\* if result.returncode == 0: ... if not keep_chunks:
DeletesChunks(exit, keep) == exit = "zero" /\ ~keep

\* a try/except around the whole loop: the first unlink that raises ends it
AbortOnFailure(pos, n, deleted) == IF deleted THEN pos + 1 ELSE n + 1

\* the try/except around unlink is inside the for loop: the loop goes on to
\* the next file whether unlink raised or not
AfterAttempt(pos, n, deleted) == pos + 1

MergeIdle ==
    /\ m_chunk_files = <<>>
    /\ m_keep = TRUE
    /\ m_fs = {}
    /\ m_list = None
    /\ m_probe = "none"
    /\ m_exit = "none"
    /\ m_calls = <<>>
    /\ m_pos = 0
    /\ m_attempts = <<>>
    /\ m_failed = {}
    /\ m_ret = None
    /\ m_pc = "idle"

MergeStart ==
    /\ m_chunk_files \in MergeInputs
    /\ m_keep \in BOOLEAN
    /\ m_fs = {m_chunk_files[k] : k \in 1..Len(m_chunk_files)}
    /\ m_list = None
    /\ m_probe = "none"
    /\ m_exit = "none"
    /\ m_calls = <<>>
    /\ m_pos = 0
    /\ m_attempts = <<>>
    /\ m_failed = {}
    /\ m_ret = None
    /\ m_pc = "start"

\* the availability probe; on failure the except clauses (or the returncode
\* test of the API) return None
Probe(probe) ==
    /\ m_pc = "start"
    /\ UNCHANGED <<upperVars, runVars, srtVars, synthVars, dlVars, moreVars>>
    /\ m_probe' = probe
    /\ m_calls' = Append(m_calls, "probe")
    /\ m_pc' = IF Available(probe) THEN "probed" ELSE "returned"
    /\ UNCHANGED <<m_chunk_files, m_keep, m_fs, m_list, m_exit, m_pos, m_attempts, m_failed,
                   m_ret>>

\* with open(list_file, 'w') as f: one line per chunk file
WriteList ==
    /\ m_pc = "probed"
    /\ UNCHANGED <<upperVars, runVars, srtVars, synthVars, dlVars, moreVars>>
    /\ m_fs' = m_fs \cup {list_file}
    /\ m_list' = ManifestLines(m_chunk_files)
    /\ m_pc' = "listed"
    /\ UNCHANGED <<m_chunk_files, m_keep, m_probe, m_exit, m_calls, m_pos, m_attempts,
                   m_failed, m_ret>>

\* the concatenation runs; unless it raised, list_file.unlink(); then the
\* returncode decides between the deletion loop, the merged path and None
Concat(exit) ==
    /\ m_pc = "listed"
    /\ UNCHANGED <<upperVars, runVars, srtVars, synthVars, dlVars, moreVars>>
    /\ m_exit' = exit
    /\ m_calls' = Append(m_calls, "concat")
    /\ m_fs' = IF exit = "raised" THEN m_fs
              ELSE IF exit = "zero" THEN (m_fs \ {list_file}) \cup {output_path}
              ELSE m_fs \ {list_file}
    /\ IF DeletesChunks(exit, m_keep)
       THEN m_pc' = "deleting" /\ m_pos' = 1 /\ m_ret' = m_ret
       ELSE /\ m_pc' = "returned"
            /\ m_pos' = m_pos
            /\ m_ret' = IF exit = "zero" THEN output_path ELSE None
    /\ UNCHANGED <<m_chunk_files, m_keep, m_list, m_probe, m_attempts, m_failed>>

\* one iteration of `for chunk_file in chunk_files`: unlink, which deletes
\* the file or raises; after the last iteration, return str(output_path)
DeleteChunkFile(deleted) ==
    /\ m_pc = "deleting"
    /\ m_pos <= Len(m_chunk_files)
    /\ UNCHANGED <<upperVars, runVars, srtVars, synthVars, dlVars, moreVars>>
    /\ m_attempts' = Append(m_attempts, m_chunk_files[m_pos])
    /\ m_fs' = IF deleted THEN m_fs \ {m_chunk_files[m_pos]} ELSE m_fs
    /\ m_failed' = IF deleted THEN m_failed ELSE m_failed \cup {m_chunk_files[m_pos]}
    /\ m_pos' = AfterAttempt(m_pos, Len(m_chunk_files), deleted)
    /\ IF m_pos' > Len(m_chunk_files)
       THEN m_pc' = "returned" /\ m_ret' = output_path
       ELSE m_pc' = "deleting" /\ m_ret' = m_ret
    /\ UNCHANGED <<m_chunk_files, m_keep, m_list, m_probe, m_exit, m_calls>>

MergeNext ==
    \/ \E probe \in ProbeOutcomes : Probe(probe)
    \/ WriteList
    \/ \E exit \in ConcatOutcomes : Concat(exit)
    \/ \E deleted \in BOOLEAN : DeleteChunkFile(deleted)

(***************************************************************************)
(* download_file (tts_api.py).                                             *)
(***************************************************************************)
\* OUTPUT_DIR = Path("output"): a path is its parts and whether it is absolute
OUTPUT_DIR == [absolute |-> FALSE, parts |-> << <<"output">> >>]

\* the working directory of the server process
WorkingDir == [absolute |-> TRUE, parts |-> << <<"srv">> >>]

\* task_id = str(uuid.uuid4()) of the conversion, and an id no task has
task_id == <<"task", 1>>

unknown_task_id == <<"task", 2>>

TaskIds == {task_id, unknown_task_id}

\* the filenames asked for: the first two chunk files and the merged file
RequestNames == {ApiAudioName(1), ApiAudioName(2), MergedName}

\* path / name
PathJoin(path, name) == [path EXCEPT !.parts = Append(@, name)]

\* Path.resolve(): a relative path is taken from the working directory (the
\* output folders hold no symbolic links)
resolve(path) ==
    IF path.absolute THEN path
    ELSE [absolute |-> TRUE, parts |-> WorkingDir.parts \o path.parts]

\* path.relative_to(other) returns rather than raises ValueError: both paths
\* absolute or both relative, and other's parts a prefix of path's
IsRelativeTo(path, other) ==
    /\ path.absolute = other.absolute
    /\ Len(other.parts) <= Len(path.parts)
    /\ SubSeq(path.parts, 1, Len(other.parts)) = other.parts

HTTPException(status_code, detail) == [code |-> status_code, detail |-> detail]

FileResponse(filename) == [code |-> 200, detail |-> filename]

\* a download_file without the test of the task's status
download_file_any_status(known, status, files, id, filename) ==
    LET file_path == PathJoin(PathJoin(OUTPUT_DIR, id), filename)
    IN  IF id \notin known THEN HTTPException(404, <<"Task not found">>)
        ELSE IF filename \notin files THEN HTTPException(404, <<"File not found">>)
        ELSE IF ~IsRelativeTo(resolve(file_path), PathJoin(OUTPUT_DIR, id))
             THEN HTTPException(403, <<"Access denied">>)
        ELSE FileResponse(filename)

\* download_file: the response to GET /download/{id}/{filename} when the
\* tasks `known` are in conversion_tasks, the task has status `status` and
\* `files` are the regular files of its output folder
download_file(known, status, files, id, filename) ==
    LET file_path == PathJoin(PathJoin(OUTPUT_DIR, id), filename)
    IN  IF id \notin known THEN HTTPException(404, <<"Task not found">>)
        ELSE IF status # "completed" THEN HTTPException(400, <<"Task not completed">>)
        ELSE IF filename \notin files THEN HTTPException(404, <<"File not found">>)
        ELSE IF ~IsRelativeTo(resolve(file_path), PathJoin(OUTPUT_DIR, id))
             THEN HTTPException(403, <<"Access denied">>)
        ELSE FileResponse(filename)

DlIdle ==
    /\ d_task_id = None
    /\ d_filename = None
    /\ d_response = None

\* a client sends GET /download/{id}/{filename}
DownloadFile(id, filename) ==
    /\ conv_pc # "idle"
    /\ UNCHANGED <<upperVars, runVars, srtVars, synthVars, mergeVars, moreVars>>
    /\ d_task_id' = id
    /\ d_filename' = filename
    /\ d_response' = download_file({task_id}, a_task_rec.status, a_files, id, filename)

DownloadNext ==
    \/ ConvertBegin
    \/ \E i \in 1..Len(a_chunks) : ApiAcquire(i)
    \/ \E i \in 1..Len(a_chunks) : ApiChunkOk(i)
    \/ \E i \in 1..Len(a_chunks) : ApiChunkFail(i)
    \/ GatherRaises
    \/ GatherReturns
    \/ \E merged \in BOOLEAN : MergeStep(merged)
    \/ \E id \in TaskIds, filename \in RequestNames : DownloadFile(id, filename)

StoryIdle ==
    /\ cs_moved = <<>>
    /\ cs_pc = "idle"

\* TTSConverterGUI.__init__: self.is_converting = False, no thread yet
GuiIdle ==
    /\ is_converting = FALSE
    /\ threads = <<>>
    /\ after_calls = <<>>
    /\ shown = <<>>
    /\ clicks = 0

MoreIdle == StoryIdle /\ GuiIdle

LowerIdle == MergeIdle /\ DlIdle /\ MoreIdle


(***************************************************************************)
(* run_conversion (tts_gui_py313.py) and main (tts_converter_py313.py):    *)
(* the conversion runs to its end, then the merge is called on the files   *)
(* it returned.  The batch runner of the GUI is the one of                 *)
(* tts_converter_py313.py with the audio path alone as the chunk file.     *)
(***************************************************************************)
\* a caller that starts the merge as soon as the conversion is under way
MergeRequestedEarly(pc, files) == pc \in {"gather", "returned"}

\* chunk_files = loop.run_until_complete(converter.convert_story(...)) has
\* returned, and `if self.try_merge_var.get() and chunk_files:`
MergeRequested(pc, files) == pc = "returned" /\ files # <<>>

\* the audio paths of the chunk files the conversion returned
FileNamesOf(files) == [k \in 1..Len(files) |-> files[k][1]]

\* converter.try_merge_with_ffmpeg(chunk_files, ..., keep_chunks) is entered
CallMerge ==
    /\ m_pc = "idle"
    /\ MergeRequested(b_pc, chunk_files)
    /\ UNCHANGED <<upperVars, runVars, srtVars, synthVars, dlVars, moreVars>>
    /\ m_chunk_files' = FileNamesOf(chunk_files)
    /\ m_keep' \in BOOLEAN
    /\ m_fs' = {m_chunk_files'[k] : k \in 1..Len(m_chunk_files')}
    /\ m_pc' = "start"
    /\ UNCHANGED <<m_list, m_probe, m_exit, m_calls, m_pos, m_attempts, m_failed, m_ret>>

ConvertNext ==
    \/ CreateTasks
    \/ \E i \in 1..Len(b_chunks) : Acquire(i)
    \/ \E i \in 1..Len(b_chunks) : ChunkSucceeds(i)
    \/ \E i \in 1..Len(b_chunks) : ChunkFails(i)
    \/ Finish
    \/ CallMerge
    \/ \E probe \in ProbeOutcomes : Probe(probe)
    \/ WriteList
    \/ \E exit \in ConcatOutcomes : Concat(exit)
    \/ \E deleted \in BOOLEAN : DeleteChunkFile(deleted)
    \/ ConvertBegin
    \/ \E i \in 1..Len(a_chunks) : ApiAcquire(i)
    \/ \E i \in 1..Len(a_chunks) : ApiChunkOk(i)
    \/ \E i \in 1..Len(a_chunks) : ApiChunkFail(i)
    \/ GatherRaises
    \/ GatherReturns
    \/ \E merged \in BOOLEAN : MergeStep(merged)

(***************************************************************************)
(* TTSConverter.convert_story of tts_converter_py313.py, after the batch:  *)
(* the chunk files are moved into Output/.                                 *)
(***************************************************************************)
\* a str is a (stem, index, extension) triple here; the pair of two results
\* that generate_chunk_audio_robust returns is not one
IsStr(value) == Len(value) = 3

\* Path(chunk_file): a str is accepted, any other object that is not
\* os.PathLike raises TypeError
PathAccepts(value) == IsStr(value)

\* dest_path = output_folder / source_path.name
InOutput(name) == <<<<"Output">>, name>>

RECURSIVE MoveAll(_)
\* the for loop of step 4 up to the first element Path() refuses:
\* moved_chunk_files.append(str(dest_path)) for each element before it
MoveAll(files) ==
    IF files = <<>> \/ ~PathAccepts(Head(files)) THEN <<>>
    ELSE <<InOutput(Head(files))>> \o MoveAll(Tail(files))

\* chunk_files = await self.generate_all_chunks(...) returned: the loop of
\* step 4, then return moved_chunk_files, or except: raise
MoveFiles ==
    /\ cs_pc = "idle"
    /\ b_pc = "returned"
    /\ UNCHANGED <<upperVars, runVars, srtVars, synthVars, mergeVars, dlVars, guiVars>>
    /\ cs_moved' = MoveAll(chunk_files)
    /\ cs_pc' = IF Len(cs_moved') = Len(chunk_files) THEN "returned" ELSE "raised"

\* generate_all_chunks raised: except Exception: raise
StoryReraises ==
    /\ cs_pc = "idle"
    /\ b_pc = "raised"
    /\ UNCHANGED <<upperVars, runVars, srtVars, synthVars, mergeVars, dlVars, guiVars>>
    /\ cs_pc' = "raised"
    /\ UNCHANGED cs_moved

StoryNext ==
    \/ BatchNext
    \/ MoveFiles
    \/ StoryReraises

(***************************************************************************)
(* The task registry of tts_api.py: DELETE /tasks/{task_id} and the        *)
(* shutdown part of lifespan, next to a conversion.                        *)
(***************************************************************************)
\* lifespan after yield: a task still 'processing' becomes 'cancelled'
CancelledAtShutdown(rec) ==
    IF rec # None /\ rec.status = "processing"
    THEN [rec EXCEPT !.status = "cancelled"] ELSE rec

\* delete_task for a task in the registry: shutil.rmtree(output_folder),
\* del conversion_tasks[task_id].  The request reaches the server after
\* run_conversion has created the converter and its folder.
DeleteTask ==
    /\ a_task_rec # None
    /\ conv_pc \notin {"idle", "start", "cancelled"}
    /\ UNCHANGED <<segVars, batchVars, seqVars, restVars>>
    /\ a_task_rec' = None
    /\ a_files' = {}
    /\ UNCHANGED <<a_chunks, merge_chunks, keep_chunks, a_semaphore, a_task, a_result,
                   conv_pc>>

\* the server shuts down while run_conversion has not ended: the server has
\* cancelled the request's tasks (CancelledError is not an Exception, so no
\* except branch of the conversion runs), then lifespan resumes after yield
Shutdown ==
    /\ conv_pc \in {"start", "gather", "merge"}
    /\ UNCHANGED <<segVars, batchVars, seqVars, restVars>>
    /\ a_task_rec' = CancelledAtShutdown(a_task_rec)
    /\ a_task' = [i \in 1..Len(a_chunks) |->
                     IF a_task[i] \in {"waiting", "running"} THEN "cancelled" ELSE a_task[i]]
    /\ conv_pc' = "cancelled"
    /\ UNCHANGED <<a_chunks, merge_chunks, keep_chunks, a_semaphore, a_files, a_result>>

RegistryNext ==
    \/ ApiNext
    \/ DeleteTask
    \/ Shutdown

(***************************************************************************)
(* TTSConverterGUI of tts_gui_py313.py and tts_gui_with_srt.py: the guard  *)
(* of start_conversion, the conversion thread and conversion_complete.     *)
(***************************************************************************)
\* a start_conversion without the test of is_converting
RefusesNever(converting) == FALSE

\* if self.is_converting: return
Refuses(converting) == converting

\* what the validation finds: no file selected, a file that does not exist,
\* a file that exists
FileChoices == {"none", "missing", "exists"}

\* start_conversion, called on the Tk main thread by the Convert button
start_conversion(file) ==
    /\ clicks < MaxClicks
    /\ UNCHANGED <<upperVars, runVars, srtVars, synthVars, mergeVars, dlVars, storyVars>>
    /\ clicks' = clicks + 1
    /\ IF Refuses(is_converting)
       THEN UNCHANGED <<is_converting, threads, after_calls, shown>>
       ELSE IF file # "exists"
       THEN /\ shown' = Append(shown, <<"Error", file>>)
            /\ UNCHANGED <<is_converting, threads, after_calls>>
       ELSE /\ is_converting' = TRUE
            /\ threads' = Append(threads, "running")
            /\ UNCHANGED <<after_calls, shown>>

\* run_conversion in its thread ends: the try block or the except branch
\* hands conversion_complete to the main thread with root.after
run_conversion(k, success) ==
    /\ k \in 1..Len(threads)
    /\ threads[k] = "running"
    /\ UNCHANGED <<upperVars, runVars, srtVars, synthVars, mergeVars, dlVars, storyVars>>
    /\ threads' = [threads EXCEPT ![k] = IF success THEN "succeeded" ELSE "failed"]
    /\ after_calls' = Append(after_calls, success)
    /\ UNCHANGED <<is_converting, shown, clicks>>

\* the main loop runs conversion_complete(success, message)
conversion_complete ==
    /\ after_calls # <<>>
    /\ UNCHANGED <<upperVars, runVars, srtVars, synthVars, mergeVars, dlVars, storyVars>>
    /\ is_converting' = FALSE
    /\ shown' = Append(shown, IF Head(after_calls) THEN <<"Success">> ELSE <<"Error", "failed">>)
    /\ after_calls' = Tail(after_calls)
    /\ UNCHANGED <<threads, clicks>>

GuiNext ==
    \/ \E file \in FileChoices : start_conversion(file)
    \/ \E k \in 1..MaxClicks, success \in BOOLEAN : run_conversion(k, success)
    \/ conversion_complete

(***************************************************************************)
(* Specifications.                                                         *)
(***************************************************************************)
RunIdle ==
    /\ runs = 0
    /\ first_chunks = None

RestIdle == RunIdle /\ SrtIdle /\ SynthIdle /\ LowerIdle

SrtInit == SegIdle /\ BatchIdle /\ SeqIdle /\ ApiIdle /\ RunIdle /\ SrtStart /\ SynthIdle /\ LowerIdle

SegInit == SegStart /\ BatchIdle /\ SeqIdle /\ ApiIdle /\ RestIdle

BatchInit == SegIdle /\ BatchStart /\ SeqIdle /\ ApiIdle /\ RestIdle

SeqInit == SegIdle /\ BatchIdle /\ SeqStart /\ ApiIdle /\ RestIdle

ApiInit == SegIdle /\ BatchIdle /\ SeqIdle /\ ApiStart /\ RestIdle

BatchesInit == BatchInit \/ SeqInit

BatchesNext ==
    \/ CreateTasks
    \/ \E i \in 1..Len(b_chunks) : Acquire(i)
    \/ \E i \in 1..Len(b_chunks) : ChunkSucceeds(i)
    \/ \E i \in 1..Len(b_chunks) : ChunkFails(i)
    \/ Finish
    \/ SeqChunkSucceeds
    \/ SeqChunkFails
    \/ SeqFinish

GateInit == BatchInit \/ ApiInit

GateNext ==
    \/ CreateTasks
    \/ \E i \in 1..Len(b_chunks) : Acquire(i)
    \/ \E i \in 1..Len(b_chunks) : ChunkSucceeds(i)
    \/ \E i \in 1..Len(b_chunks) : ChunkFails(i)
    \/ Finish
    \/ ConvertBegin
    \/ \E i \in 1..Len(a_chunks) : ApiAcquire(i)
    \/ \E i \in 1..Len(a_chunks) : ApiChunkOk(i)
    \/ \E i \in 1..Len(a_chunks) : ApiChunkFail(i)
    \/ GatherRaises
    \/ GatherReturns
    \/ \E merged \in BOOLEAN : MergeStep(merged)

SpecSeg == SegInit /\ [][SegNext]_vars

SegWideInit == SegStartWide /\ BatchIdle /\ SeqIdle /\ ApiIdle /\ RestIdle

SegTwiceNext == SegNext \/ SegRestart

SpecSegTwice == SegInit /\ [][SegTwiceNext]_vars

SynthInit == SegIdle /\ BatchIdle /\ SeqIdle /\ ApiIdle /\ RunIdle /\ SrtIdle /\ SynthStart /\ LowerIdle

SpecSynth == SynthInit /\ [][SynthNext]_vars

SpecSrt == SrtInit /\ [][SrtNext]_vars

SpecSegWide == SegWideInit /\ [][SegNext]_vars

SpecBatch == BatchInit /\ [][BatchNext]_vars

SpecAPI == ApiInit /\ [][ApiNext]_vars

SpecGate == GateInit /\ [][GateNext]_vars

SpecBatches == BatchesInit /\ [][BatchesNext]_vars

MergeInit ==
    /\ SegIdle /\ BatchIdle /\ SeqIdle /\ ApiIdle
    /\ RunIdle /\ SrtIdle /\ SynthIdle /\ MergeStart /\ DlIdle /\ MoreIdle

SpecMerge == MergeInit /\ [][MergeNext]_vars

\* a request of up to MaxDownloadChunks chunks, and the downloads of its files
DownloadInit == ApiInit /\ Len(a_chunks) <= MaxDownloadChunks

SpecDownload == DownloadInit /\ [][DownloadNext]_vars

\* a story of up to MaxMergeFiles chunks under the GUI, or a request under the API
ConvertInit == (BatchInit /\ Len(b_chunks) <= MaxMergeFiles) \/ ApiInit

SpecConvert == ConvertInit /\ [][ConvertNext]_vars

\* the batch on an event loop that runs every task that can run: a task
\* waiting at a free semaphore gets in, a running synthesis finishes, and
\* gather returns once every task is done
FairInit == BatchInit /\ Len(b_chunks) <= MaxFairChunks

FairAdmission == \A i \in 1..MaxFairChunks : WF_vars(i <= Len(b_chunks) /\ Acquire(i))

FairSynthesis ==
    \A i \in 1..MaxFairChunks :
        WF_vars(i <= Len(b_chunks) /\ (ChunkSucceeds(i) \/ ChunkFails(i)))

SpecBatchFair ==
    /\ FairInit
    /\ [][BatchNext]_vars
    /\ WF_vars(CreateTasks)
    /\ FairAdmission
    /\ FairSynthesis
    /\ WF_vars(Finish)

\* a conversion of the API next to delete requests and the shutdown
RegistryInit == ApiInit /\ Len(a_chunks) <= MaxRegistryChunks

SpecRegistry == RegistryInit /\ [][RegistryNext]_vars

\* the desktop window: clicks on Convert, conversion threads, Tk callbacks
GuiInit == SegIdle /\ BatchIdle /\ SeqIdle /\ ApiIdle /\ RestIdle

SpecGui == GuiInit /\ [][GuiNext]_vars

\* convert_story of tts_converter_py313.py: the batch, then the move
SpecStory == BatchInit /\ [][StoryNext]_vars
(***************************************************************************)
(* Properties.                                                             *)
(***************************************************************************)
BatchDone == b_pc \in {"returned", "raised"}

SuccessIndices == [k \in 1..Len(chunk_files) |-> IndexOfFile(chunk_files[k])]

FailureIndices == [k \in 1..Len(errors) |-> errors[k][1]]

StrictlyAscending(s) == \A j, k \in 1..Len(s) : j < k => s[j] < s[k]

Occurrences(s, x) == Cardinality({k \in 1..Len(s) : s[k] = x})

\* the chunks whose synthesis raised / returned, as the tasks reported them
FailedChunks == {i \in 1..Len(b_chunks) : task_pc[i] = "done" /\ task_result[i][3] # None}

SucceededChunks == {i \in 1..Len(b_chunks) : task_pc[i] = "done" /\ task_result[i][3] = None}

Running == {i \in 1..Len(b_chunks) : task_pc[i] = "running"}

Waiting == {i \in 1..Len(b_chunks) : task_pc[i] = "waiting"}

\* C1: whatever the completion order of the chunk tasks, the success list and
\* the failure list that generate_all_chunks ends with are each in strictly
\* ascending chunk-index order.
C1_ListsAscending ==
    BatchDone => StrictlyAscending(SuccessIndices) /\ StrictlyAscending(FailureIndices)

\* a batch that ended with two successes and two failures whose tasks did not
\* complete in index order
C1_OutOfOrderCompletion ==
    /\ b_pc = "returned"
    /\ Len(chunk_files) >= 2
    /\ Len(errors) >= 2
    /\ \E j, k \in 1..Len(finished) : j < k /\ finished[j] > finished[k]

\* C2: at every moment of a batch run the number of chunk tasks inside the
\* admission gate is at most the concurrency limit: max_concurrent_chunks in
\* the converter, 3 in the API.
C2_GateBound ==
    /\ Cardinality(Running) <= max_concurrent_chunks
    /\ Cardinality(ApiRunning) <= ApiConcurrency

\* the gate is full and a further task is kept waiting
C2_GateSaturated ==
    /\ b_pc = "gather"
    /\ Cardinality(Running) = max_concurrent_chunks
    /\ Waiting # {}

\* C3: a chunk's failure stays with that chunk.  When generate_all_chunks
\* ends, every task has run to completion, every chunk that did not fail is
\* in the success list, a batch with a success does not raise, and 5 chunks
\* of which only chunk 3 fails end as successes 1,2,4,5 and failure 3.
C3_FailureIsolated ==
    BatchDone =>
        /\ \A i \in 1..Len(b_chunks) : task_pc[i] = "done"
        /\ \A i \in SucceededChunks : Occurrences(chunk_files, ChunkFile(i)) = 1
        /\ SucceededChunks # {} => b_pc = "returned"
        /\ (Len(b_chunks) = 5 /\ FailedChunks = {3}) =>
               /\ SuccessIndices = <<1, 2, 4, 5>>
               /\ FailureIndices = <<3>>

\* 5 chunks under limit 2: chunk 3 failed before every other chunk completed,
\* and the call returned
C3_FiveChunksThirdFails ==
    /\ b_pc = "returned"
    /\ Len(b_chunks) = 5
    /\ max_concurrent_chunks = 2
    /\ FailedChunks = {3}
    /\ finished[1] = 3

\* C4: in the HTTP service a conversion in which one chunk failed and another
\* succeeded is not an error: it ends in status 'completed' with a result
\* that lists the audio files of the chunks that succeeded.
C4_PartialSuccessCompletes ==
    (/\ conv_pc \in {"returned", "raised"}
     /\ \E i \in 1..Len(a_chunks) : a_task[i] = "failed"
     /\ \E i \in 1..Len(a_chunks) : a_task[i] = "ok")
    => /\ a_task_rec.status = "completed"
       /\ a_task_rec.result # None
       /\ \A i \in 1..Len(a_chunks) : a_task[i] = "ok" =>
              \E k \in 1..Len(a_task_rec.result.chunks) :
                  a_task_rec.result.chunks[k] = ApiAudioName(i)

\* C5: once convert has returned or raised, none of the chunk tasks it
\* launched is still waiting for the semaphore or synthesizing.
C5_NoTaskOutlivesConvert ==
    conv_pc \in {"returned", "raised"} => ApiUnfinished = {}

\* C6: when generate_all_chunks ends, every input chunk index is in exactly
\* one of the success list and the failure list, exactly once.
C6_CoverExactlyOnce ==
    BatchDone =>
        /\ \A i \in 1..Len(b_chunks) :
               Occurrences(SuccessIndices, i) + Occurrences(FailureIndices, i) = 1
        /\ Len(chunk_files) + Len(errors) = Len(b_chunks)

\* a batch of at least three chunks that ended with both lists non-empty
C6_MixedOutcome ==
    /\ BatchDone
    /\ Len(b_chunks) >= 3
    /\ chunk_files # <<>>
    /\ errors # <<>>

\* C7: generate_all_chunks raises exactly when the success list is empty,
\* which is when every chunk failed, and only after every chunk was dealt
\* with; in the concurrent converter and in the sequential one.
C7_RaisesIffNoSuccess ==
    /\ b_pc = "raised" =>
           /\ chunk_files = <<>>
           /\ \A i \in 1..Len(b_chunks) : task_pc[i] = "done"
           /\ FailedChunks = 1..Len(b_chunks)
    /\ b_pc = "returned" =>
           /\ chunk_files # <<>>
           /\ \A i \in 1..Len(b_chunks) : task_pc[i] = "done"
           /\ SucceededChunks # {}
    /\ q_pc = "raised" =>
           /\ q_files = <<>>
           /\ q_i > Len(q_chunks)
           /\ Len(q_failed) = Len(q_chunks)
    /\ q_pc = "returned" =>
           /\ q_files # <<>>
           /\ q_i > Len(q_chunks)
           /\ Len(q_failed) < Len(q_chunks)

\* a batch of several chunks, all of which failed, raised
C7_AllFailedRaised ==
    \/ b_pc = "raised" /\ Len(b_chunks) >= 2 /\ Len(errors) = Len(b_chunks)
    \/ q_pc = "raised" /\ Len(q_chunks) >= 2

(***************************************************************************)
(* Properties of split_text_into_chunks.                                   *)
(***************************************************************************)
\* C8: the loop of split_text_into_chunks terminates, because every iteration
\* that does not stop the loop moves current_pos to a strictly greater value
\* that is at most len(text), and leaves the text and the bounds as they are
\* (len(text) - current_pos is a variant of the loop).
C8_StrictAdvance ==
    [][(seg_pc = "loop" /\ seg_pc' = "loop") =>
           /\ current_pos' > current_pos
           /\ current_pos' <= Len(text)
           /\ UNCHANGED <<text, chunk_min, chunk_max>>]_vars

\* the loop is running after at least two cuts
C8_SecondIteration ==
    /\ seg_pc = "loop"
    /\ Len(chunks) >= 2
    /\ current_pos < Len(text)

\* from position p of t: whitespace, then chunk k, whitespace, chunk k+1, ...
\* and only whitespace after the last chunk, up to position last
RECURSIVE ChunksTile(_, _, _, _, _)
ChunksTile(t, p, last, cs, k) ==
    LET gap == {j \in p..last : \A m \in p..j : IsSpace(t[m])}
        q == IF gap = {} THEN p ELSE SetMax(gap) + 1
    IN  IF k > Len(cs) THEN q > last
        ELSE /\ q + Len(cs[k]) - 1 <= last
             /\ SubSeq(t, q, q + Len(cs[k]) - 1) = cs[k]
             /\ ChunksTile(t, q + Len(cs[k]), last, cs, k + 1)

\* how far the text has been consumed
Scanned == IF seg_pc = "done" THEN Len(text) ELSE current_pos

\* C9: the chunks are consecutive trimmed slices of the text: the scanned
\* part of the text is the chunks in order with nothing but whitespace
\* before, between and after them, so no character is lost or repeated.
C9_NoLossNoDup ==
    /\ ChunksTile(text, 1, Scanned, chunks, 1)
    /\ \A k \in 1..Len(chunks) : Strip(chunks[k]) = chunks[k]

RECURSIVE TotalLen(_)
TotalLen(cs) == IF cs = <<>> THEN 0 ELSE Len(Head(cs)) + TotalLen(Tail(cs))

\* a finished run of several chunks on a text that starts and ends with text
\* proper, in which whitespace at a cut was trimmed away
C9_WhitespaceTrimmedAtCut ==
    /\ seg_pc = "done"
    /\ Len(chunks) >= 2
    /\ ~IsSpace(text[1])
    /\ ~IsSpace(text[Len(text)])
    /\ TotalLen(chunks) < Len(text)

\* C10: no emitted chunk is empty or whitespace only, and the empty text gives
\* no chunk at all.
C10_NoBlankChunk ==
    /\ \A k \in 1..Len(chunks) : chunks[k] # <<>> /\ Strip(chunks[k]) # <<>>
    /\ (seg_pc = "done" /\ text = <<>>) => chunks = <<>>

\* a finished run that cut at least once and emitted a single chunk: one of
\* its slices was whitespace only and was dropped
C10_BlankSliceDropped ==
    /\ seg_pc = "done"
    /\ current_pos > 0
    /\ Len(chunks) = 1


\* C11 as stated: every chunk has at most chunk_max characters and every
\* chunk but the last has at least chunk_min characters.
C11_SizeBounds ==
    /\ \A k \in 1..Len(chunks) : Len(chunks[k]) <= chunk_max
    /\ seg_pc = "done" =>
           \A k \in 1..(Len(chunks) - 1) : Len(chunks[k]) >= chunk_min

\* what C11 can say of the lower bound: every non-final iteration consumes a
\* slice of at least chunk_min and at most chunk_max characters of the text;
\* the chunk is that slice trimmed, never longer than the slice.
C11_SliceWithinBounds ==
    [][/\ \A k \in 1..Len(chunks') : Len(chunks'[k]) <= chunk_max'
       /\ (seg_pc = "loop" /\ seg_pc' = "loop") =>
              /\ current_pos' - current_pos >= chunk_min
              /\ current_pos' - current_pos <= chunk_max
              /\ Len(chunks') > Len(chunks) =>
                     Len(chunks'[Len(chunks')]) <= current_pos' - current_pos]_vars

(***************************************************************************)
(* The break points of a search window, stated position by position.  The  *)
(* window is text[lo:hi] in Python terms, positions lo+1..hi of t; an end  *)
(* is the 0-based exclusive end of a break, an absolute position.          *)
(***************************************************************************)
\* end of the whitespace that starts at position p and stays inside the window
WindowRunEnd(t, p, hi) == SetMax({j \in p..hi : \A m \in p..j : IsSpace(t[m])})

\* a sentence terminator followed by whitespace
SentenceEnds(t, lo, hi) ==
    {WindowRunEnd(t, p + 1, hi) :
        p \in {q \in (lo + 1)..(hi - 1) : IsTerminator(t[q]) /\ IsSpace(t[q + 1])}}

\* two line breaks with nothing but whitespace between them
BlankLineEnds(t, lo, hi) ==
    {j \in (lo + 2)..hi :
        /\ t[j] = "\n"
        /\ \E i \in (lo + 1)..(j - 1) :
               t[i] = "\n" /\ \A m \in i..j : IsSpace(t[m])}

\* a comma followed by whitespace
CommaEnds(t, lo, hi) ==
    {WindowRunEnd(t, p + 1, hi) :
        p \in {q \in (lo + 1)..(hi - 1) : t[q] = "," /\ IsSpace(t[q + 1])}}

\* a whitespace run
WhitespaceEnds(t, lo, hi) ==
    {j \in (lo + 1)..hi : IsSpace(t[j]) /\ (j = hi \/ ~IsSpace(t[j + 1]))}

PriorityCut(t, lo, hi) ==
    IF SentenceEnds(t, lo, hi) # {} THEN SetMax(SentenceEnds(t, lo, hi))
    ELSE IF BlankLineEnds(t, lo, hi) # {} THEN SetMax(BlankLineEnds(t, lo, hi))
    ELSE IF CommaEnds(t, lo, hi) # {} THEN SetMax(CommaEnds(t, lo, hi))
    ELSE IF WhitespaceEnds(t, lo, hi) # {} THEN SetMax(WhitespaceEnds(t, lo, hi))
    ELSE hi

\* C12: a non-final iteration cuts at the end of the last sentence break of
\* the window [current_pos + chunk_min, target_end); without one, at the end
\* of its last blank-line break; without one, at the end of its last comma
\* break; without one, at the end of its last whitespace run; without one,
\* at target_end.
C12_CutByPriority ==
    [][(seg_pc = "loop" /\ seg_pc' = "loop") =>
           current_pos' = PriorityCut(text, current_pos + chunk_min,
                                      MinNat(current_pos + chunk_max, Len(text)))]_vars

\* after the first cut: the window held a blank-line break and, further on,
\* a comma break, and the cut is at the blank-line break
C12_BlankLineBeatsComma ==
    /\ seg_pc = "loop"
    /\ Len(chunks) = 1
    /\ ~IsSpace(text[1])
    /\ SentenceEnds(text, chunk_min, chunk_max) = {}
    /\ BlankLineEnds(text, chunk_min, chunk_max) # {}
    /\ CommaEnds(text, chunk_min, chunk_max) # {}
    /\ current_pos = SetMax(BlankLineEnds(text, chunk_min, chunk_max))
    /\ current_pos < SetMax(CommaEnds(text, chunk_min, chunk_max))


IsAccepted(event) ==
    /\ event.type = "SentenceBoundary"
    /\ \E i \in 1..Len(event.text) : ~IsSpace(event.text[i])

AcceptedEvents(events) == SelectSeq(events, IsAccepted)

\* C14: the stored cues are numbered 1, 2, ..., n in order and cue_index is
\* n + 1; there is one cue per sentence event with non-blank text, so a
\* sentence event with blank text stores no cue and consumes no number.
C14_GaplessNumbering ==
    /\ \A k \in 1..Len(srt_maker.cues) : srt_maker.cues[k].index = k
    /\ srt_maker.cue_index = Len(srt_maker.cues) + 1
    /\ Len(srt_maker.cues) = Len(AcceptedEvents(fed))

\* a blank sentence event was fed, then a sentence event with text: one cue,
\* numbered 1
C14_BlankThenText ==
    /\ Len(fed) = 2
    /\ fed[1].type = "SentenceBoundary"
    /\ ~IsAccepted(fed[1])
    /\ IsAccepted(fed[2])
    /\ Len(srt_maker.cues) = 1
    /\ srt_maker.cues[1].index = 1


\* whole milliseconds in a tick count, and the sum of two tick counts
FloorMs(ticks) == ticks[1] * (TickLimb \div TicksPerMs) + ticks[2] \div TicksPerMs

TickSum(a, b) == <<a[1] + b[1] + (a[2] + b[2]) \div TickLimb, (a[2] + b[2]) % TickLimb>>

\* reading a timestamp back: the number a digit string denotes, and the fields
IsDigit(ch) == \E d \in 1..10 : DigitChars[d] = ch

DigitValue(ch) == (CHOOSE d \in 1..10 : DigitChars[d] = ch) - 1

RECURSIVE NatOf(_)
NatOf(digits) ==
    IF digits = <<>> THEN 0
    ELSE NatOf(SubSeq(digits, 1, Len(digits) - 1)) * 10 + DigitValue(digits[Len(digits)])

\* hours of two digits or more, ":", MM, ":", SS, ",", mmm
WellFormedTime(t) ==
    /\ Len(t) >= 12
    /\ t[Len(t) - 3] = ","
    /\ t[Len(t) - 6] = ":"
    /\ t[Len(t) - 9] = ":"
    /\ \A i \in 1..Len(t) :
           i \notin {Len(t) - 3, Len(t) - 6, Len(t) - 9} => IsDigit(t[i])

HoursOf(t) == NatOf(SubSeq(t, 1, Len(t) - 10))
MinutesOf(t) == NatOf(SubSeq(t, Len(t) - 8, Len(t) - 7))
SecondsOf(t) == NatOf(SubSeq(t, Len(t) - 5, Len(t) - 4))
MillisOf(t) == NatOf(SubSeq(t, Len(t) - 2, Len(t)))

\* t is the rendering of ms whole milliseconds
RendersMs(t, ms) ==
    /\ WellFormedTime(t)
    /\ HoursOf(t) = ms \div MsPerHour
    /\ MinutesOf(t) = (ms % MsPerHour) \div MsPerMinute
    /\ SecondsOf(t) = (ms % MsPerMinute) \div MsPerSecond
    /\ MillisOf(t) = ms % MsPerSecond
    /\ MinutesOf(t) \in 0..59
    /\ SecondsOf(t) \in 0..59
    /\ MillisOf(t) \in 0..999
    /\ HoursOf(t) * MsPerHour + MinutesOf(t) * MsPerMinute
           + SecondsOf(t) * MsPerSecond + MillisOf(t) = ms

TimeZero == <<"0", "0", ":", "0", "0", ":", "0", "0", ",", "0", "0", "0">>
TimeTwoAndAHalf == <<"0", "0", ":", "0", "0", ":", "0", "2", ",", "5", "0", "0">>

\* C15: the start of a cue is the HH:MM:SS,mmm rendering of the whole
\* milliseconds of offset / 10000, its end the rendering of the whole
\* milliseconds of (offset + duration) / 10000; hours have two digits or
\* more, minutes and seconds are in 00..59, milliseconds in 000..999.
\* Offset 0 with duration 25000000 gives 00:00:00,000 --> 00:00:02,500.
C15_TickToTimestamp ==
    \A k \in 1..Len(srt_maker.cues) :
        k <= Len(AcceptedEvents(fed)) =>
            LET cue == srt_maker.cues[k]
                event == AcceptedEvents(fed)[k]
            IN  /\ RendersMs(cue.start, FloorMs(event.offset))
                /\ RendersMs(cue.end, FloorMs(TickSum(event.offset, event.duration)))
                /\ (event.offset = <<0, 0>> /\ event.duration = <<0, 25000000>>) =>
                       cue.start = TimeZero /\ cue.end = TimeTwoAndAHalf

\* two cues: the example of the claim, and a cue that starts one tick before
\* the first hour is over and lasts one tick
C15_ExampleAndHourCarry ==
    /\ Len(srt_maker.cues) = 2
    /\ Len(fed) = 2
    /\ fed[1].offset = <<0, 0>> /\ fed[1].duration = <<0, 25000000>>
    /\ srt_maker.cues[1].start = TimeZero
    /\ srt_maker.cues[1].end = TimeTwoAndAHalf
    /\ fed[2].offset = <<359, 99999999>> /\ fed[2].duration = <<0, 1>>
    /\ HoursOf(srt_maker.cues[2].start) = 0
    /\ HoursOf(srt_maker.cues[2].end) = 1


NewLine == <<"\n">>

\* {index}\n{start} --> {end}\n{text}\n\n
Block(cue) ==
    Decimal(cue.index) \o NewLine
        \o cue.start \o <<" ", "-", "-", ">", " ">> \o cue.end \o NewLine
        \o cue.text \o NewLine
        \o NewLine

RECURSIVE Blocks(_)
Blocks(cs) == IF cs = <<>> THEN <<>> ELSE Block(Head(cs)) \o Blocks(Tail(cs))

\* the cues are those of the accepted events, in the order they were fed
CuesInCreationOrder ==
    /\ Len(srt_maker.cues) = Len(AcceptedEvents(fed))
    /\ \A k \in 1..Len(srt_maker.cues) :
           /\ srt_maker.cues[k].index = k
           /\ srt_maker.cues[k].text = Strip(AcceptedEvents(fed)[k].text)

\* C16 as stated: the output of get_srt is the concatenation of the blocks of
\* the cues in creation order, each block being the index line, the time
\* line, the text line and a blank line, the last block like the others.
C16_FullBlocks ==
    srt_pc = "serialized" =>
        /\ CuesInCreationOrder
        /\ srt_content = Blocks(srt_maker.cues)

\* C16, amended: the output of get_srt is the concatenation of the blocks of
\* the cues in creation order without its last line break: a blank line
\* follows every cue but the last, whose text line ends the output.
C16_BlocksLessFinalBreak ==
    srt_pc = "serialized" =>
        /\ CuesInCreationOrder
        /\ srt_maker.cues # <<>> => srt_content \o NewLine = Blocks(srt_maker.cues)
        /\ srt_maker.cues = <<>> => srt_content = <<>>

\* two cues were serialized: a blank line between them, one line break after
\* the text of the second
C16_TwoCuesSerialized ==
    /\ srt_pc = "serialized"
    /\ Len(srt_maker.cues) = 2
    /\ Len(srt_content) > 2
    /\ srt_content[Len(srt_content)] = "\n"
    /\ srt_content[Len(srt_content) - 1] # "\n"


\* C17: when none of the events fed was a sentence event with non-blank
\* text (no event at all, events of other types, sentence events with blank
\* text), get_srt returns the empty string and no cue is stored.
C17_EmptyWithoutCues ==
    (srt_pc = "serialized" /\ AcceptedEvents(fed) = <<>>) =>
        /\ srt_content = <<>>
        /\ srt_maker.cues = <<>>

\* get_srt returned after a blank sentence event and an event of another
\* type were fed
C17_OnlyRejectedEventsFed ==
    /\ srt_pc = "serialized"
    /\ Len(fed) = 2
    /\ fed[1].type = "SentenceBoundary"
    /\ fed[2].type = "WordBoundary"
    /\ AcceptedEvents(fed) = <<>>
    /\ srt_content = <<>>


(***************************************************************************)
(* Properties of generate_chunk_audio_robust.                              *)
(***************************************************************************)
\* the payloads of the audio events of a stream, in arrival order
RECURSIVE AudioPayloads(_)
AudioPayloads(events) ==
    IF events = <<>> THEN <<>>
    ELSE (IF Head(events).type = "audio" THEN Head(events).data ELSE <<>>)
             \o AudioPayloads(Tail(events))

\* C18: after a call has returned, the audio file of its chunk holds the
\* payloads of the audio events of its stream in arrival order and nothing
\* else: nothing for a sentence or word event, no byte of another stream.
C18_AudioInStreamOrder ==
    \A c \in SynthChunks :
        s_pc[c] = "returned" =>
            /\ AudioName(c) \in fs_exists
            /\ fs_content[AudioName(c)] = AudioPayloads(s_events[c])
            /\ \A i \in 1..Len(fs_content[AudioName(c)]) :
                   fs_content[AudioName(c)][i][1] = c

\* both calls have returned; the stream of chunk 1 was two audio events, the
\* stream of chunk 2 an audio event and an event of another type
C18_TwoStreamsWritten ==
    /\ s_pc[1] = "returned"
    /\ s_pc[2] = "returned"
    /\ Len(fs_content[AudioName(1)]) = 2
    /\ Len(s_events[2]) = 2
    /\ Len(fs_content[AudioName(2)]) = 1

\* C19: a call that fails raises an error that names its chunk, and leaves
\* neither the audio file nor the SRT file of the chunk; a call that
\* returns leaves a non-empty audio file.
C19_NoOrphanedFiles ==
    \A c \in SynthChunks :
        /\ s_pc[c] = "raised" =>
               /\ s_ret[c].kind = "error"
               /\ s_ret[c].chunk = c
               /\ AudioName(c) \notin fs_exists
               /\ SrtName(c) \notin fs_exists
        /\ s_pc[c] = "returned" =>
               /\ s_ret[c].kind = "ok"
               /\ AudioName(c) \in fs_exists
               /\ fs_content[AudioName(c)] # <<>>

\* the call of chunk 1 failed writing its SRT file, the call of chunk 2 failed
\* on an empty audio file
C19_SrtWriteAndEmptyAudioFailed ==
    /\ s_pc[1] = "raised"
    /\ s_ret[1].cause = <<"srt write">>
    /\ s_pc[2] = "raised"
    /\ s_ret[2].cause = <<"empty">>

\* C20: a call with generate_srt that returns has written the SRT file and
\* returns its path exactly when its stream had a sentence event with
\* non-blank text; without one it returns no SRT path and there is no SRT
\* file, and having no cue is never a reason to fail.  Without generate_srt
\* there is never an SRT file.
C20_SrtIffCue ==
    \A c \in SynthChunks :
        /\ (s_pc[c] = "returned" /\ generate_srt) =>
               IF AcceptedEvents(s_events[c]) # <<>>
               THEN /\ s_ret[c].srt = SrtName(c)
                    /\ SrtName(c) \in fs_exists
                    /\ fs_content[SrtName(c)] # <<>>
               ELSE /\ s_ret[c].srt = None
                    /\ SrtName(c) \notin fs_exists
        /\ (s_pc[c] = "raised" /\ AcceptedEvents(s_events[c]) = <<>>) =>
               s_ret[c].cause \in {<<"stream">>, <<"not created">>, <<"empty">>}
        /\ ~generate_srt => (SrtName(c) \notin fs_exists /\ s_ret[c].srt = None)

\* with generate_srt both calls have returned: chunk 1 with an SRT file,
\* chunk 2, whose only sentence event had blank text, without
C20_OneWithOneWithout ==
    /\ generate_srt
    /\ s_pc[1] = "returned"
    /\ s_ret[1].srt = SrtName(1)
    /\ SrtName(1) \in fs_exists
    /\ s_pc[2] = "returned"
    /\ \E i \in 1..Len(s_events[2]) : s_events[2][i].type = "SentenceBoundary"
    /\ s_ret[2].srt = None
    /\ SrtName(2) \notin fs_exists


(***************************************************************************)
(* The merge.                                                              *)
(***************************************************************************)
\* every chunk file handed to the merge is still in the chunk folder
AllChunkFilesExist == \A k \in 1..Len(m_chunk_files) : m_chunk_files[k] \in m_fs

\* the external command `cmd` has been run
WasRun(cmd) == \E k \in 1..Len(m_calls) : m_calls[k] = cmd

\* C21: when the ffmpeg probe fails (executable not found, or a non-zero exit
\* of the version check) the merge has returned None, no manifest was
\* written, the concatenation was not run and no chunk file was deleted or
\* even tried, whatever keep_chunks is.
C21_UnavailableIsANoOp ==
    m_probe \in {"not found", "nonzero"} =>
        /\ m_pc = "returned"
        /\ m_ret = None
        /\ list_file \notin m_fs
        /\ ~WasRun("concat")
        /\ m_attempts = <<>>
        /\ AllChunkFilesExist

\* C21 witness: the probe failed in a call that was asked not to keep chunks
C21_ProbeFailedNoKeep ==
    /\ m_probe = "nonzero"
    /\ ~m_keep
    /\ m_pc = "returned"
    /\ Len(m_chunk_files) = 2

\* C22: when the concatenation exits non-zero or raises, the merge returns
\* None and every chunk file still exists; with keep_chunks true no chunk file
\* is ever deleted; a deletion is only ever tried after a concatenation that
\* exited 0 and wrote the merged file, in a call with keep_chunks false.
C22_DeleteOnlyAfterSuccess ==
    /\ m_exit \in {"nonzero", "raised"} =>
          /\ m_pc = "returned"
          /\ m_ret = None
          /\ AllChunkFilesExist
          /\ m_attempts = <<>>
    /\ m_keep => (AllChunkFilesExist /\ m_attempts = <<>>)
    /\ (m_attempts # <<>> \/ m_pc = "deleting") =>
          (m_exit = "zero" /\ ~m_keep /\ output_path \in m_fs)

\* C22 witness: a failed concatenation in a call with keep_chunks false, all
\* the chunk files still there
C22_FailedMergeKeptChunks ==
    /\ m_exit = "nonzero"
    /\ ~m_keep
    /\ m_pc = "returned"
    /\ Len(m_chunk_files) = 2
    /\ AllChunkFilesExist

\* C23: when the probe succeeded and the concatenation exited 0, the merge
\* returns the merged file's path; with keep_chunks false the unlink of every
\* chunk file has been tried by then, in order, whether or not an earlier one
\* raised, and a file is gone exactly if its unlink did not raise.
C23_SuccessPath ==
    (m_probe = "ok" /\ m_exit = "zero" /\ m_pc = "returned") =>
        /\ m_ret = output_path
        /\ output_path \in m_fs
        /\ m_attempts = (IF m_keep THEN <<>> ELSE m_chunk_files)
        /\ \A k \in 1..Len(m_chunk_files) :
              (m_chunk_files[k] \in m_fs) <=> (m_keep \/ m_chunk_files[k] \in m_failed)

\* C23 witness: the first unlink raised, a later one deleted its file, and the
\* merged path was returned
C23_FirstDeleteFailed ==
    /\ m_pc = "returned"
    /\ m_ret = output_path
    /\ Len(m_chunk_files) >= 2
    /\ m_chunk_files[1] \in m_failed
    /\ m_chunk_files[2] \notin m_fs


\* the number of times the concatenation command has been run
ConcatRuns == Cardinality({k \in 1..Len(m_calls) : m_calls[k] = "concat"})

\* every chunk task of the batch has returned and generate_all_chunks with it
BatchJoined ==
    /\ b_pc = "returned"
    /\ \A i \in 1..Len(b_chunks) : task_pc[i] \in {"none", "done"}

\* C24: the concatenation is run at most once per conversion, and the merge
\* is only ever entered or in progress when every chunk task of the
\* conversion has completed: under the GUI and main the batch has been
\* joined, under the API the merge step is entered once, from the gather, and
\* no task is waiting or running then.
C24_MergeOnceAfterJoin ==
    [][/\ ConcatRuns' <= 1
       /\ m_pc' # "idle" => BatchJoined'
       /\ conv_pc' = "merge" => (ApiUnfinished' = {} /\ conv_pc \in {"gather", "merge"})
       /\ conv_pc = "merge" => conv_pc' \in {"merge", "returned"}
       /\ conv_pc \in {"returned", "raised"} => conv_pc' = conv_pc]_vars

\* C24 witness: a batch in which a chunk failed was joined, and the
\* concatenation has run on the files of the others
C24_ConcatAfterPartialBatch ==
    /\ ConcatRuns = 1
    /\ errors # <<>>
    /\ Len(m_chunk_files) = 2
    /\ m_pc = "returned"


\* C25: the triple a chunk task returned has exactly one of its file and its
\* error set: (index, chunk_file, None) or (index, None, error); a task that
\* has not returned has no triple.
C25_ExactlyOneOfFileAndError ==
    \A i \in 1..Len(b_chunks) :
        IF task_pc[i] = "done"
        THEN /\ task_result[i] # None
             /\ task_result[i][1] = i
             /\ (task_result[i][2] # None) # (task_result[i][3] # None)
        ELSE task_result[i] = None

\* C25 witness: one task returned a file and another returned an error
C25_OneOfEach ==
    \E i, j \in 1..Len(b_chunks) :
        /\ task_pc[i] = "done" /\ task_result[i][2] # None
        /\ task_pc[j] = "done" /\ task_result[j][3] # None


\* the chunk numbers whose file names are compared
NameIndices == (1..MaxChunks) \cup WideChunkNumbers

\* the calls whose `with open(output_path, "wb")` block is being executed
Writing == {c \in SynthChunks : s_pc[c] = "streaming"}

\* the batch has created its calls and none has opened its file yet
NamesComputed == \A c \in SynthChunks : s_pc[c] = "start"

\* C26: no two calls ever have the same audio file open for writing, and the
\* file names, which each call derives from its 1-based chunk number on
\* entry, differ whenever the chunk numbers differ (audio from audio,
\* subtitle from subtitle, and audio from subtitle).
C26_NoSharedOutputFile ==
    /\ \A c, d \in Writing :
          c # d => output_filename(Prefix, c) # output_filename(Prefix, d)
    /\ NamesComputed =>
          \A i, j \in NameIndices :
             /\ (output_filename(Prefix, i) = output_filename(Prefix, j)) <=> (i = j)
             /\ (srt_filename(Prefix, i) = srt_filename(Prefix, j)) <=> (i = j)
             /\ output_filename(Prefix, i) # srt_filename(Prefix, j)
             /\ (AudioName(i) = AudioName(j)) <=> (i = j)
             /\ (SrtName(i) = SrtName(j)) <=> (i = j)

\* C26 witness: two calls are inside their write blocks at once, and both
\* have written audio
C26_TwoWritersAtOnce ==
    /\ Writing = SynthChunks
    /\ \A c \in SynthChunks : fs_content[AudioName(c)] # <<>>
    /\ output_filename(Prefix, 1) = <<"c", "h", "u", "n", "k", "_", "0", "0", "1", ".mp3">>


\* the file names listed in the result of the conversion
ResultFileNames ==
    IF a_result = None THEN {}
    ELSE {a_result.chunks[k] : k \in 1..Len(a_result.chunks)}
         \cup (IF a_result.merged_file = None THEN {} ELSE {a_result.merged_file})

\* C27: a download request for a completed task that names one of the task's
\* result files, which is a regular file in the task's output folder, is
\* answered with the file.
C27_ResultFileIsServed ==
    [][(/\ <<d_task_id, d_filename, d_response>>' # <<d_task_id, d_filename, d_response>>
        /\ d_task_id' = task_id
        /\ a_task_rec.status = "completed"
        /\ d_filename' \in ResultFileNames
        /\ d_filename' \in a_files)
       => d_response' = FileResponse(d_filename')]_vars


\* the event the step passes to feed_sentence
FedNow == fed'[Len(fed')]

\* C28: feed_sentence with an event whose type is not SentenceBoundary (a
\* word event, an audio event) leaves the cue list and cue_index as they
\* were.
C28_OtherEventsIgnored ==
    [][(Len(fed') = Len(fed) + 1 /\ FedNow.type # "SentenceBoundary")
          => (srt_maker'.cues = srt_maker.cues /\ srt_maker'.cue_index = srt_maker.cue_index)]_vars

\* C28 witness: a word event with text was fed, then a sentence event, and
\* the only cue is the one of the sentence, numbered 1
C28_WordThenSentence ==
    /\ Len(fed) = 2
    /\ fed[1].type = "WordBoundary" /\ fed[1].text # <<>>
    /\ fed[2].type = "SentenceBoundary"
    /\ Len(srt_maker.cues) = 1
    /\ srt_maker.cues[1].index = 1
    /\ srt_maker.cue_index = 2


\* the time a timestamp denotes, in milliseconds
TimeInMs(t) ==
    HoursOf(t) * MsPerHour + MinutesOf(t) * MsPerMinute
        + SecondsOf(t) * MsPerSecond + MillisOf(t)

\* C29: every stored cue has start <= end as times, the events fed having
\* offsets and durations of zero or more ticks.
C29_StartNotAfterEnd ==
    \A k \in 1..Len(srt_maker.cues) :
        /\ WellFormedTime(srt_maker.cues[k].start)
        /\ WellFormedTime(srt_maker.cues[k].end)
        /\ TimeInMs(srt_maker.cues[k].start) <= TimeInMs(srt_maker.cues[k].end)

\* C29 witness: a cue whose end is its start (a duration of one tick) and a
\* cue that starts in one hour and ends in the next
C29_EqualAndAcrossTheHour ==
    /\ Len(srt_maker.cues) = 2
    /\ srt_maker.cues[1].start = srt_maker.cues[1].end
    /\ HoursOf(srt_maker.cues[2].start) = 0
    /\ HoursOf(srt_maker.cues[2].end) = 1
    /\ MillisOf(srt_maker.cues[2].end) < MillisOf(srt_maker.cues[2].start)


\* the lines of a text: its pieces between line breaks
RECURSIVE SplitLines(_)
SplitLines(content) ==
    IF \A i \in 1..Len(content) : content[i] # "\n" THEN <<content>>
    ELSE LET p == CHOOSE i \in 1..Len(content) :
                      content[i] = "\n" /\ \A j \in 1..(i - 1) : content[j] # "\n"
         IN  <<SubSeq(content, 1, p - 1)>> \o SplitLines(SubSeq(content, p + 1, Len(content)))

\* the start of a time line "start --> end": what is before the first space
StartOfLine(line) ==
    LET p == CHOOSE i \in 1..Len(line) : line[i] = " " /\ \A j \in 1..(i - 1) : line[j] # " "
    IN  SubSeq(line, 1, p - 1)

\* the start times in the output, read from the second line of every four
OutputStarts ==
    LET lines == SplitLines(srt_content)
    IN  [k \in 1..(Len(lines) \div 4) |-> StartOfLine(lines[4 * (k - 1) + 2])]

\* a <= b for tick counts
TickLeq(a, b) == a[1] < b[1] \/ (a[1] = b[1] /\ a[2] <= b[2])

\* the sentence events were fed with nondecreasing offsets
OffsetsNondecreasing ==
    \A i, j \in 1..Len(fed) :
        (i < j /\ fed[i].type = "SentenceBoundary" /\ fed[j].type = "SentenceBoundary")
            => TickLeq(fed[i].offset, fed[j].offset)

\* C30: the stored cues are those of the sentence events with text in the
\* order the events were fed, the output of get_srt lists them in that same
\* order, and when the offsets fed were nondecreasing the start times in the
\* output are nondecreasing.
C30_OutputInFedOrder ==
    LET accepted == AcceptedEvents(fed)
    IN  /\ Len(srt_maker.cues) = Len(accepted)
        /\ \A k \in 1..Len(srt_maker.cues) :
              srt_maker.cues[k].start = ms_to_srt_time(TrueDiv(accepted[k].offset))
        /\ srt_pc = "serialized" =>
              /\ Len(OutputStarts) = Len(accepted)
              /\ \A k \in 1..Len(OutputStarts) :
                    OutputStarts[k] = ms_to_srt_time(TrueDiv(accepted[k].offset))
              /\ OffsetsNondecreasing =>
                    \A k \in 1..(Len(OutputStarts) - 1) :
                        TimeInMs(OutputStarts[k]) <= TimeInMs(OutputStarts[k + 1])

\* C30 witness: two sentences fed with increasing offsets, serialized with
\* the earlier start first
C30_TwoStartsAscending ==
    /\ srt_pc = "serialized"
    /\ OffsetsNondecreasing
    /\ Len(OutputStarts) = 2
    /\ TimeInMs(OutputStarts[1]) < TimeInMs(OutputStarts[2])

(***************************************************************************)
(* Properties of the subtitle accumulators of concurrent chunk calls.      *)
(***************************************************************************)
\* the first line of a text
FirstLine(content) == SplitLines(content)[1]

\* C31: every chunk call has its own accumulator: it holds one cue per
\* accepted sentence event of that chunk's own stream and none of another
\* chunk's, numbered 1, 2, ... in order, and a chunk's SRT file starts with
\* cue number 1 whatever the other chunks have been fed.
C31_OwnAccumulatorFromOne ==
    \A c \in SynthChunks :
        /\ Len(s_maker[c].cues) =
               IF generate_srt THEN Len(AcceptedEvents(s_events[c])) ELSE 0
        /\ \A k \in 1..Len(s_maker[c].cues) : s_maker[c].cues[k].index = k
        /\ SrtName(c) \in fs_exists => FirstLine(fs_content[SrtName(c)]) = Decimal(1)

\* C31 witness: both chunks returned with an SRT file, each file starting
\* with cue number 1, and chunk 1's accumulator held a cue before chunk 2's
\* stream delivered its sentence
C31_BothFilesStartAtOne ==
    /\ generate_srt
    /\ \A c \in SynthChunks :
          /\ s_pc[c] = "returned"
          /\ SrtName(c) \in fs_exists
          /\ FirstLine(fs_content[SrtName(c)]) = Decimal(1)
          /\ Len(s_maker[c].cues) = 1

(***************************************************************************)
(* Properties of the merge manifest.                                       *)
(***************************************************************************)

\* C32: once written, the manifest has one line per chunk file given to the
\* merge, the k-th line naming the k-th file; the files given are those of the
\* succeeded chunks of the batch, each once, in ascending chunk index, so the
\* manifest the concatenation reads lists the chunks in chunk order.
C32_ManifestInChunkOrder ==
    m_list # None =>
        /\ Len(m_list) = Len(m_chunk_files)
        /\ \A k \in 1..Len(m_list) : m_list[k] = ManifestLine(m_chunk_files[k])
        /\ \A j, k \in 1..Len(m_list) : j < k => m_list[j][2][2] < m_list[k][2][2]
        /\ {m_list[k][2] : k \in 1..Len(m_list)} = {AudioName(i) : i \in SucceededChunks}

\* C32 witness: a batch of three chunks of which the second failed was merged
\* from the manifest of chunk 1 and chunk 3, in that order
C32_ManifestOfOneAndThree ==
    /\ Len(b_chunks) = 3
    /\ m_exit = "zero"
    /\ m_list = <<ManifestLine(AudioName(1)), ManifestLine(AudioName(3))>>

(***************************************************************************)
(* Properties of convert_story.                                            *)
(***************************************************************************)
\* C33: after a batch with at least one success every element of the list
\* generate_all_chunks returned is the path of a chunk's audio file, and
\* convert_story has moved every one of them into Output/ and returned the
\* moved paths without raising.
C33_EveryReturnedFileIsMoved ==
    (b_pc = "returned" /\ cs_pc # "idle") =>
        /\ \A k \in 1..Len(chunk_files) : IsStr(chunk_files[k])
        /\ cs_pc = "returned"
        /\ Len(cs_moved) = Len(chunk_files)

(***************************************************************************)
(* Liveness of the batch under its concurrency gate.                       *)
(***************************************************************************)
\* C34: on a fair event loop, with a limit of at least 1 and every synthesis
\* finishing, every task created leaves the wait at the gate, the permits in
\* use are those of the running tasks (a finished task has given its permit
\* back whether it succeeded or failed), and generate_all_chunks returns or
\* raises.
C34_BatchTerminates ==
    /\ (b_pc = "gather") ~> (\A i \in 1..Len(b_chunks) : task_pc[i] # "waiting")
    /\ [](b_pc # "start" => semaphore = max_concurrent_chunks - Cardinality(Running))
    /\ <>(b_pc \in {"returned", "raised"})

\* C34 witness: two chunks went through a gate of one permit, the first of
\* them failed, and the batch returned
C34_TwoThroughOnePermit ==
    /\ max_concurrent_chunks = 1
    /\ Len(tasks) = 2
    /\ finished # <<>>
    /\ task_result[Head(finished)][3] # None
    /\ b_pc = "returned"

(***************************************************************************)
(* Properties of the task registry.                                        *)
(***************************************************************************)
TerminalStatuses == {"completed", "failed", "cancelled"}

\* C35: a task starts as 'processing'; a step changes the status of a task
\* only from 'processing' to 'completed', 'failed' or 'cancelled', so a
\* terminal status never changes again; a task that becomes or stays
\* 'completed' has its result set and one that is 'failed' has its error set.
C35_TaskLifecycle ==
    [][ /\ (conv_pc = "start" /\ a_task_rec # None) => a_task_rec.status = "processing"
        /\ (a_task_rec # None /\ a_task_rec' # None) =>
              /\ a_task_rec'.status # a_task_rec.status =>
                    /\ a_task_rec.status = "processing"
                    /\ a_task_rec'.status \in TerminalStatuses
              /\ a_task_rec'.status = "completed" => a_task_rec'.result # None
              /\ a_task_rec'.status = "failed" => a_task_rec'.error # None
              /\ a_task_rec'.status = "processing" =>
                    (a_task_rec'.result = None /\ a_task_rec'.error = None) ]_vars

\* C35 witness: the shutdown cancelled a task whose conversion had one chunk
\* done and one running
C35_CancelledInTheMiddle ==
    /\ a_task_rec # None
    /\ a_task_rec.status = "cancelled"
    /\ \E i \in 1..Len(a_chunks) : a_task[i] = "ok"
    /\ \E i \in 1..Len(a_chunks) : a_task[i] = "cancelled"

\* C36: once delete_task has removed a task whose conversion is still going
\* on, the conversion's later completion or failure leaves the task absent
\* from the registry and does not end run_conversion in an unhandled error.
C36_DeletedTaskEndsQuietly ==
    [][ (a_task_rec = None /\ conv_pc \in {"gather", "merge"}) =>
           (a_task_rec' = None /\ conv_pc' # "unhandled") ]_vars

(***************************************************************************)
(* Gating of downloads.                                                    *)
(***************************************************************************)
\* C37: a download request for a task id that is not in the registry is
\* answered 404 'Task not found', one for a task whose status is not
\* 'completed' is answered 400 'Task not completed', whatever file it names
\* and whatever files exist; so a file is served only for a known task that
\* is completed.
C37_DownloadsAreGated ==
    [][ <<d_task_id, d_filename, d_response>>' # <<d_task_id, d_filename, d_response>> =>
           /\ d_task_id' # task_id =>
                 d_response' = HTTPException(404, <<"Task not found">>)
           /\ (d_task_id' = task_id /\ a_task_rec.status # "completed") =>
                 d_response' = HTTPException(400, <<"Task not completed">>)
           /\ d_response'.code = 200 =>
                 (d_task_id' = task_id /\ a_task_rec.status = "completed") ]_vars

\* C37 witness: a request for a chunk file that exists already, of a task
\* still processing, was answered 400
C37_RefusedWhileProcessing ==
    /\ d_task_id = task_id
    /\ d_filename \in a_files
    /\ a_task_rec.status = "processing"
    /\ d_response = HTTPException(400, <<"Task not completed">>)

(***************************************************************************)
(* Properties of the desktop window's conversion guard.                    *)
(***************************************************************************)
RunningThreads == {k \in 1..Len(threads) : threads[k] = "running"}

\* C38: at most one conversion thread runs at a time; a call of
\* start_conversion while is_converting is true starts no thread and changes
\* nothing; and is_converting is true exactly while a conversion is running
\* or its conversion_complete is still to run, so it is false again after
\* every conversion, successful or failed.
C38_OneConversionAtATime ==
    [][ /\ Cardinality(RunningThreads) <= 1
        /\ (clicks' # clicks /\ is_converting) =>
              UNCHANGED <<is_converting, threads, after_calls, shown>>
        /\ is_converting = (RunningThreads # {} \/ after_calls # <<>>)
        /\ is_converting' = (RunningThreads' # {} \/ after_calls' # <<>>) ]_vars

\* C38 witness: a call during the first conversion started nothing, the
\* first conversion failed, the flag was reset and a second conversion runs
C38_SecondAfterFailedFirst ==
    /\ clicks = 3
    /\ threads = <<"failed", "running">>
    /\ is_converting
    /\ shown = << <<"Error", "failed">> >>

(***************************************************************************)
(* The manifest after the merge.                                           *)
(***************************************************************************)
\* C39: when the merge has returned, with the merged path or with None, the
\* manifest chunk_list.txt is not in the chunk folder any more.
C39_ManifestIsTemporary ==
    m_pc = "returned" => list_file \notin m_fs

====
